---- MODULE Spec2Model ----
(***************************************************************************)
(* Array based half-edge mesh of cfd-rs-utils (src/mesh/half_edge.rs) and  *)
(* the computational mesh derived from it (src/mesh/computational_mesh.rs).*)
(*                                                                         *)
(* Vectors are functions over 0..len-1, so that indices keep the values    *)
(* they have in the source (HalfEdgeIndex(1) is 1).  Coordinates are       *)
(* integers in units of 1/PosScale, distance ratios are integers in units  *)
(* of 1/RatioDen: every value used is a dyadic rational, for which the     *)
(* f64 arithmetic of the source is exact.                                  *)
(***************************************************************************)
EXTENDS Integers, Sequences, FiniteSets, TLC

VARIABLES mesh, last, safe, comp, built_he, refused

vars == <<mesh, last, safe, comp, built_he, refused>>

(***************************************************************************)
(* Bounds of the model                                                     *)
(***************************************************************************)
\* mutating calls are explored while the store has gained at most MaxGrowth
\* half-edges since new_from_boundary built it
MaxGrowth == 4
\* boundaries given to new_from_boundary have 1..MaxEdges edges
MaxEdges == 4
\* Boundary parents handed to new_from_boundary
MaxParents == 3
\* half-edges of a store built by hand
StoreHalfEdges == 2

\* a distance ratio t stands for t / RatioDen
RatioDen == 2 * 2
\* coordinates are integers in units of 1 / PosScale
PosScale == 2 * (RatioDen ^ (MaxGrowth \div 2))

\* placeholder usize::MAX written by trimming: an index no array holds
UsizeMax == 2147483647

(***************************************************************************)
(* Vec<T> as a function over 0..len-1                                      *)
(***************************************************************************)
len(v) == Cardinality(DOMAIN v)
EmptyVec == [i \in {} |-> 0]
Push(v, x) == [i \in 0..len(v) |-> IF i < len(v) THEN v[i] ELSE x]
InRange(i, v) == i \in DOMAIN v
Vec(s) == [i \in 0..(Len(s) - 1) |-> s[i + 1]]

NoRet == 0 - 1
Result(m, res, ret) == [m |-> m, res |-> res, ret |-> ret]

(***************************************************************************)
(* Base2DMesh                                                              *)
(***************************************************************************)
he_len(m) == len(m.he_to_vertex)
vertices_len(m) == len(m.vertices)
parents_len(m) == len(m.parents)

vertices_from_he(m, he_id) ==
    <<m.he_to_vertex[he_id], m.he_to_vertex[m.he_to_twin[he_id]]>>

\* the half-edges originating at vertex_id, in increasing index order
he_from_vertex(m, vertex_id) ==
    {i \in DOMAIN m.he_to_vertex : m.he_to_vertex[i] = vertex_id}

\* Point2::lerp: a * (1 - t) + b * t
lerp(a, b, t) ==
    << (a[1] * (RatioDen - t) + b[1] * t) \div RatioDen,
       (a[2] * (RatioDen - t) + b[2] * t) \div RatioDen >>

(***************************************************************************)
(* Modifiable2DMesh::new_from_boundary                                     *)
(***************************************************************************)
\* the loop over the edges with the two parents pushed the other way round
RECURSIVE boundary_loop_cell_on_twin(_, _, _, _)
boundary_loop_cell_on_twin(st, edges, cell, i) ==
    IF i >= len(edges) THEN st
    ELSE
      LET edge == edges[i]
          new_he_1 == len(st.he_to_vertex)
          new_he_2 == len(st.he_to_vertex) + 1
          s1 == [st EXCEPT
                   !.he_to_vertex = Push(Push(@, edge[1]), edge[2]),
                   !.he_to_twin = Push(Push(@, new_he_2), new_he_1),
                   !.he_to_parent = Push(Push(@, edge[3]), cell),
                   !.he_to_next_he = Push(Push(@, 0), 0),
                   !.he_to_prev_he = Push(Push(@, 0), 0)]
          s2 == IF i = 0 THEN s1
                ELSE [s1 EXCEPT
                   !.he_to_next_he = [[@ EXCEPT ![new_he_2] = st.prev_he_2]
                                         EXCEPT ![st.prev_he_1] = new_he_1],
                   !.he_to_prev_he = [[@ EXCEPT ![new_he_1] = st.prev_he_1]
                                         EXCEPT ![st.prev_he_2] = new_he_2]]
      IN boundary_loop_cell_on_twin(
             [s2 EXCEPT !.prev_he_1 = new_he_1, !.prev_he_2 = new_he_2],
             edges, cell, i + 1)

\* the loop over the edges (lines 350-380); st carries the five half-edge
\* arrays and prev_he_1, prev_he_2
RECURSIVE boundary_loop(_, _, _, _)
boundary_loop(st, edges, cell, i) ==
    IF i >= len(edges) THEN st
    ELSE
      LET edge == edges[i]
          new_he_1 == len(st.he_to_vertex)
          new_he_2 == len(st.he_to_vertex) + 1
          s1 == [st EXCEPT
                   !.he_to_vertex = Push(Push(@, edge[1]), edge[2]),
                   !.he_to_twin = Push(Push(@, new_he_2), new_he_1),
                   !.he_to_parent = Push(Push(@, cell), edge[3]),
                   !.he_to_next_he = Push(Push(@, 0), 0),
                   !.he_to_prev_he = Push(Push(@, 0), 0)]
          s2 == IF i = 0 THEN s1
                ELSE [s1 EXCEPT
                   !.he_to_next_he = [[@ EXCEPT ![new_he_2] = st.prev_he_2]
                                         EXCEPT ![st.prev_he_1] = new_he_1],
                   !.he_to_prev_he = [[@ EXCEPT ![new_he_1] = st.prev_he_1]
                                         EXCEPT ![st.prev_he_2] = new_he_2]]
      IN boundary_loop([s2 EXCEPT !.prev_he_1 = new_he_1, !.prev_he_2 = new_he_2],
                       edges, cell, i + 1)

\* lines 388-396: for every parent, the first half-edge naming it (nothing
\* is pushed for a parent no half-edge names)
RECURSIVE first_he_loop(_, _, _, _)
first_he_loop(he_to_parent, nparents, i, acc) ==
    IF i >= nparents THEN acc
    ELSE LET hes == {j \in DOMAIN he_to_parent : he_to_parent[j] = i}
         IN first_he_loop(he_to_parent, nparents, i + 1,
               IF hes = {} THEN acc
               ELSE Push(acc, CHOOSE j \in hes : \A k \in hes : j <= k))

new_from_boundary(vertices, edge_to_vertices_and_parent, parents) ==
    LET cell == len(parents)
        parents1 == Push(parents, [kind |-> "Cell"])
        st0 == [he_to_vertex |-> EmptyVec, he_to_twin |-> EmptyVec,
                he_to_next_he |-> EmptyVec, he_to_prev_he |-> EmptyVec,
                he_to_parent |-> EmptyVec, prev_he_1 |-> 0, prev_he_2 |-> 0]
        st == boundary_loop(st0, edge_to_vertices_and_parent, cell, 0)
    IN IF ~ InRange(1, st.he_to_next_he) THEN Result(st0, "Panic", NoRet)
       ELSE
         LET nx == [[st.he_to_next_he EXCEPT ![1] = st.prev_he_2]
                                      EXCEPT ![st.prev_he_1] = 0]
             pv == [[st.he_to_prev_he EXCEPT ![0] = st.prev_he_1]
                                      EXCEPT ![st.prev_he_2] = 1]
         IN Result([vertices |-> vertices,
                    he_to_vertex |-> st.he_to_vertex,
                    he_to_twin |-> st.he_to_twin,
                    he_to_next_he |-> nx,
                    he_to_prev_he |-> pv,
                    he_to_parent |-> st.he_to_parent,
                    parents |-> parents1,
                    parent_to_first_he |->
                        first_he_loop(st.he_to_parent, len(parents1), 0, EmptyVec)],
                   "Ok", NoRet)

(***************************************************************************)
(* Modifiable2DMesh::split_edge                                            *)
(***************************************************************************)
\* a range test that lets the two ends of the interval through
ratio_out_of_range_open(distance_ratio) ==
    (distance_ratio > RatioDen) \/ (distance_ratio < 0)

\* line 440: the ratio is rejected
ratio_out_of_range(distance_ratio) ==
    (distance_ratio >= RatioDen) \/ (distance_ratio <= 0)

\* a new vertex put on the end of the half-edge, whatever the ratio
split_vertex_pos_at_end(m, he_id, distance_ratio) ==
    m.vertices[vertices_from_he(m, he_id)[2]]

\* lines 448-455: the position of the new vertex
split_vertex_pos(m, he_id, distance_ratio) ==
    LET edge_vertices == vertices_from_he(m, he_id)
    IN lerp(m.vertices[edge_vertices[1]], m.vertices[edge_vertices[2]],
            distance_ratio)

\* a split that pushes the two twins and leaves the old pair as it was
split_twin_unpaired(he_to_twin, he0, he1) ==
    Push(Push(he_to_twin, he1), he0)

\* lines 469-472: he_to_twin after the split of he0 (twin he1)
split_twin(he_to_twin, he0, he1) ==
    LET new0 == len(he_to_twin)
        new1 == len(he_to_twin) + 1
    IN [[Push(Push(he_to_twin, he1), he0) EXCEPT ![he0] = new1] EXCEPT ![he1] = new0]

\* a split that rewrites next and leaves the prev of the old successors
split_next_prev_stale(he_to_next_he, he_to_prev_he, he0, he1) ==
    LET new0 == len(he_to_next_he)
        new1 == len(he_to_next_he) + 1
        nx == [[he_to_next_he EXCEPT ![he0] = new0] EXCEPT ![he1] = new1]
    IN [next |-> Push(Push(nx, he_to_next_he[he0]), he_to_next_he[he1]),
        prev |-> Push(Push(he_to_prev_he, he0), he1)]

\* a split that links the new half-edge of he0 and leaves the new half-edge
\* of the twin as a loop of its own
split_next_prev_one_side(he_to_next_he, he_to_prev_he, he0, he1) ==
    LET new0 == len(he_to_next_he)
        new1 == len(he_to_next_he) + 1
        next_a == he_to_next_he[he0]
    IN [next |-> Push(Push([he_to_next_he EXCEPT ![he0] = new0], next_a), new1),
        prev |-> Push(Push([he_to_prev_he EXCEPT ![next_a] = new0], he0), new1)]

\* lines 474-484: he_to_next_he and he_to_prev_he after the split
split_next_prev(he_to_next_he, he_to_prev_he, he0, he1) ==
    LET new0 == len(he_to_next_he)
        new1 == len(he_to_next_he) + 1
        next_a == he_to_next_he[he0]
        nx1 == Push([he_to_next_he EXCEPT ![he0] = new0], next_a)
        pv1 == [he_to_prev_he EXCEPT ![next_a] = new0]
        next_b == nx1[he1]
        nx2 == Push([nx1 EXCEPT ![he1] = new1], next_b)
        pv2 == [pv1 EXCEPT ![next_b] = new1]
    IN [next |-> nx2, prev |-> Push(Push(pv2, he0), he1)]

\* a split whose new half-edges take each other's parent
split_parent_swapped(he_to_parent, he0, he1) ==
    Push(Push(he_to_parent, he_to_parent[he1]), he_to_parent[he0])

\* lines 486-487: the new half-edges inherit the parents
split_parent(he_to_parent, he0, he1) ==
    LET par1 == Push(he_to_parent, he_to_parent[he0])
    IN Push(par1, par1[he1])

split_edge(m, he_id, distance_ratio) ==
    IF he_id >= he_len(m) THEN Result(m, "HalfEdgeIndexOutOfBound", NoRet)
    ELSE IF ratio_out_of_range(distance_ratio)
    THEN Result(m, "WrongFloatValue", NoRet)
    ELSE
      LET new_vertex_id == len(m.vertices)
          new_vertex_pos == split_vertex_pos(m, he_id, distance_ratio)
          he0 == he_id
          he1 == m.he_to_twin[he_id]
          np == split_next_prev(m.he_to_next_he, m.he_to_prev_he, he0, he1)
      IN Result([m EXCEPT
                   !.vertices = Push(@, new_vertex_pos),
                   !.he_to_vertex = Push(Push(@, new_vertex_id), new_vertex_id),
                   !.he_to_twin = split_twin(@, he0, he1),
                   !.he_to_next_he = np.next,
                   !.he_to_prev_he = np.prev,
                   !.he_to_parent = split_parent(@, he0, he1)],
                "Ok", NoRet)

(***************************************************************************)
(* Modifiable2DMesh::trimming                                              *)
(***************************************************************************)
\* lines 530-536 / 550-556: the lowest half-edge leaving vertex_id whose
\* parent is parent; NoRet when there is none
he_from_vertex_with_parent(m, vertex_id, parent) ==
    LET hes == {he \in he_from_vertex(m, vertex_id) : m.he_to_parent[he] = parent}
    IN IF hes = {} THEN NoRet ELSE CHOOSE he \in hes : \A k \in hes : he <= k

\* the checks with the parent looked at before the existing edge
trimming_checks_parent_first(m, vertices, parent) ==
    IF vertices[1] >= vertices_len(m) THEN "VertexIndexOutOfBound"
    ELSE IF vertices[2] >= vertices_len(m) THEN "VertexIndexOutOfBound"
    ELSE IF he_from_vertex_with_parent(m, vertices[1], parent) = NoRet
    THEN "ParentDoesNotContainVertex"
    ELSE IF he_from_vertex_with_parent(m, vertices[2], parent) = NoRet
    THEN "ParentDoesNotContainVertex"
    ELSE IF \E he \in DOMAIN m.he_to_twin :
               /\ m.he_to_vertex[he] = vertices[1]
               /\ m.he_to_vertex[m.he_to_twin[he]] = vertices[2]
    THEN "AlreadyExists"
    ELSE "Ok"

\* lines 507-566: the checks made before anything is written
trimming_checks(m, vertices, parent) ==
    IF vertices[1] >= vertices_len(m) THEN "VertexIndexOutOfBound"
    ELSE IF vertices[2] >= vertices_len(m) THEN "VertexIndexOutOfBound"
    ELSE IF \E he \in DOMAIN m.he_to_twin :
               /\ m.he_to_vertex[he] = vertices[1]
               /\ m.he_to_vertex[m.he_to_twin[he]] = vertices[2]
    THEN "AlreadyExists"
    ELSE IF he_from_vertex_with_parent(m, vertices[1], parent) = NoRet
    THEN "ParentDoesNotContainVertex"
    ELSE IF he_from_vertex_with_parent(m, vertices[2], parent) = NoRet
    THEN "ParentDoesNotContainVertex"
    ELSE "Ok"

\* an insertion that gives both new half-edges the origin vertices[1]
trimming_insert_same_origin(m, vertices, parent, hu) ==
    LET new_he == he_len(m)
        new_cell == parents_len(m)
        prev_hu == m.he_to_prev_he[hu]
    IN [m EXCEPT
          !.he_to_vertex = Push(Push(@, vertices[1]), vertices[1]),
          !.he_to_twin = Push(Push(@, new_he + 1), new_he),
          !.parents = Push(@, [kind |-> "Cell"]),
          !.he_to_parent = Push(Push(@, parent), new_cell),
          !.he_to_next_he =
              [Push(Push(@, hu), UsizeMax) EXCEPT ![prev_hu] = new_he + 1],
          !.he_to_prev_he =
              [Push(Push(@, UsizeMax), prev_hu) EXCEPT ![hu] = new_he]]

\* lines 570-589: the two new half-edges and the new parent are pushed and
\* hooked in front of hu, the half-edge leaving vertices[1]
trimming_insert(m, vertices, parent, hu) ==
    LET new_he == he_len(m)
        new_cell == parents_len(m)
        prev_hu == m.he_to_prev_he[hu]
    IN [m EXCEPT
          !.he_to_vertex = Push(Push(@, vertices[2]), vertices[1]),
          !.he_to_twin = Push(Push(@, new_he + 1), new_he),
          !.parents = Push(@, [kind |-> "Cell"]),
          !.he_to_parent = Push(Push(@, parent), new_cell),
          !.he_to_next_he =
              [Push(Push(@, hu), UsizeMax) EXCEPT ![prev_hu] = new_he + 1],
          !.he_to_prev_he =
              [Push(Push(@, UsizeMax), prev_hu) EXCEPT ![hu] = new_he]]

\* the two walks of lines 594-604 and 612-623: re-parent the half-edges
\* from current_he up to the first one that leaves vertex `stop`; indexing
\* past the arrays panics, he_len iterations give up with an error
RECURSIVE trimming_walk(_, _, _, _, _)
trimming_walk(m, current_he, i, stop, new_parent) ==
    IF ~ InRange(current_he, m.he_to_vertex)
    THEN [st |-> "Panic", m |-> m, current_he |-> current_he]
    ELSE IF m.he_to_vertex[current_he] = stop
    THEN [st |-> "Done", m |-> m, current_he |-> current_he]
    ELSE LET m1 == [m EXCEPT !.he_to_parent[current_he] = new_parent]
             nxt == m1.he_to_next_he[current_he]
         IN IF i + 1 >= he_len(m1)
            THEN [st |-> "Err", m |-> m1, current_he |-> nxt]
            ELSE trimming_walk(m1, nxt, i + 1, stop, new_parent)

\* a closing step that leaves the old predecessor of current_he pointing at
\* current_he
trimming_close_unhooked(m, new_he, current_he) ==
    LET pv_a == [m.he_to_prev_he EXCEPT ![new_he] = m.he_to_prev_he[current_he]]
        nx_a == [m.he_to_next_he EXCEPT ![new_he + 1] = current_he]
        pv_b == [pv_a EXCEPT ![current_he] = new_he + 1]
    IN [m EXCEPT !.he_to_next_he = nx_a, !.he_to_prev_he = pv_b]

\* lines 606-609: the new half-edges are hooked in front of current_he, the
\* half-edge leaving vertices[2]; new_he is the first of the two
trimming_close(m, new_he, current_he) ==
    LET pv_a == [m.he_to_prev_he EXCEPT ![new_he] = m.he_to_prev_he[current_he]]
        nx_a == [m.he_to_next_he EXCEPT ![new_he + 1] = current_he]
        nx_b == [nx_a EXCEPT ![pv_a[current_he]] = new_he]
        pv_b == [pv_a EXCEPT ![current_he] = new_he + 1]
    IN [m EXCEPT !.he_to_next_he = nx_b, !.he_to_prev_he = pv_b]

\* the new parent gets its first half-edge, the old parent keeps its own
trimming_first_he_kept(parent_to_first_he, parent, new_he) ==
    Push(parent_to_first_he, new_he + 1)

\* the old parent gets its new first half-edge, the new parent gets none
trimming_first_he_unpushed(parent_to_first_he, parent, new_he) ==
    [parent_to_first_he EXCEPT ![parent] = new_he]

\* lines 625-627
trimming_first_he(parent_to_first_he, parent, new_he) ==
    Push([parent_to_first_he EXCEPT ![parent] = new_he], new_he + 1)

trimming(m, vertices, parent) ==
    IF trimming_checks(m, vertices, parent) # "Ok"
    THEN Result(m, trimming_checks(m, vertices, parent), NoRet)
    ELSE
      LET hu == he_from_vertex_with_parent(m, vertices[1], parent)
          new_he == he_len(m)
          new_cell == parents_len(m)
          m1 == trimming_insert(m, vertices, parent, hu)
          w1 == trimming_walk(m1, hu, 0, vertices[2], parent)
      IN IF ~ InRange(m.he_to_prev_he[hu], m.he_to_next_he)
         THEN Result(m1, "Panic", NoRet)
         ELSE IF w1.st = "Panic" THEN Result(w1.m, "Panic", NoRet)
         ELSE IF w1.st = "Err" THEN Result(w1.m, "ParentDoesNotContainVertex", NoRet)
         ELSE IF ~ InRange(w1.m.he_to_prev_he[w1.current_he], w1.m.he_to_next_he)
         THEN Result(w1.m, "Panic", NoRet)
         ELSE
           LET m2 == trimming_close(w1.m, new_he, w1.current_he)
               w2 == trimming_walk(m2, w1.current_he, 0, vertices[1], new_cell)
           IN IF w2.st = "Panic" THEN Result(w2.m, "Panic", NoRet)
              ELSE IF w2.st = "Err"
              THEN Result(w2.m, "ParentDoesNotContainVertex", NoRet)
              ELSE IF ~ InRange(parent, w2.m.parent_to_first_he)
              THEN Result(w2.m, "Panic", NoRet)
              ELSE Result([w2.m EXCEPT !.parent_to_first_he =
                               trimming_first_he(@, parent, new_he)],
                          "Ok", new_cell)

(***************************************************************************)
(* Modifiable2DMesh::notching                                              *)
(***************************************************************************)
\* a notching that cuts the triangle out of the parent of he itself
notching_same_side(m, he, pos) ==
    IF he >= he_len(m) THEN Result(m, "HalfEdgeIndexOutOfBound", NoRet)
    ELSE
      LET parent == m.he_to_parent[he]
          vertices == vertices_from_he(m, he)
          new_vertex == vertices_len(m)
          s == split_edge(m, he, RatioDen \div 2)
      IN IF s.res # "Ok" THEN s
         ELSE trimming([s.m EXCEPT !.vertices[new_vertex] = pos],
                       <<vertices[1], vertices[2]>>, parent)

notching(m, he, pos) ==
    IF he >= he_len(m) THEN Result(m, "HalfEdgeIndexOutOfBound", NoRet)
    ELSE
      LET parent == m.he_to_parent[m.he_to_twin[he]]
          vertices == vertices_from_he(m, he)
          new_vertex == vertices_len(m)
          s == split_edge(m, he, RatioDen \div 2)
      IN IF s.res # "Ok" THEN s
         ELSE trimming([s.m EXCEPT !.vertices[new_vertex] = pos],
                       <<vertices[1], vertices[2]>>, parent)

(***************************************************************************)
(* Base2DMesh::he_from_parent and Base2DMesh::check_mesh                   *)
(***************************************************************************)
\* the while loop of he_from_parent; a walk that has not come back to
\* first_he after he_len pushes never comes back (the loop does not end)
RECURSIVE he_from_parent_walk(_, _, _, _)
he_from_parent_walk(m, first_he, current_he, result) ==
    IF first_he = current_he THEN [st |-> "Ok", hes |-> result]
    ELSE IF len(result) > he_len(m) THEN [st |-> "Diverge", hes |-> result]
    ELSE IF ~ InRange(current_he, m.he_to_next_he)
    THEN [st |-> "Panic", hes |-> result]
    ELSE he_from_parent_walk(m, first_he, m.he_to_next_he[current_he],
                             Push(result, current_he))

\* a walk whose result leaves out first_he
he_from_parent_without_first(m, parent_id) ==
    IF ~ InRange(parent_id, m.parent_to_first_he)
    THEN [st |-> "Panic", hes |-> EmptyVec]
    ELSE LET first_he == m.parent_to_first_he[parent_id]
         IN IF ~ InRange(first_he, m.he_to_next_he)
            THEN [st |-> "Panic", hes |-> EmptyVec]
            ELSE he_from_parent_walk(m, first_he, m.he_to_next_he[first_he],
                                     EmptyVec)

he_from_parent(m, parent_id) ==
    IF ~ InRange(parent_id, m.parent_to_first_he)
    THEN [st |-> "Panic", hes |-> EmptyVec]
    ELSE LET first_he == m.parent_to_first_he[parent_id]
         IN IF ~ InRange(first_he, m.he_to_next_he)
            THEN [st |-> "Panic", hes |-> EmptyVec]
            ELSE he_from_parent_walk(m, first_he, m.he_to_next_he[first_he],
                                     Push(EmptyVec, first_he))

vertices_from_parent(m, parent_id) ==
    LET hes == he_from_parent(m, parent_id).hes
    IN [i \in DOMAIN hes |-> m.he_to_vertex[hes[i]]]

\* lines 248-259: the parents in order, each cycle in order
RECURSIVE check_parents(_, _)
check_parents(m, i) ==
    IF i >= parents_len(m) THEN "Ok"
    ELSE LET c == he_from_parent(m, i)
         IN IF c.st # "Ok" THEN c.st
            ELSE IF \E k \in DOMAIN c.hes : m.he_to_parent[c.hes[k]] # i
            THEN "ParentNotCorrect"
            ELSE check_parents(m, i + 1)

\* check_mesh with the parent range loop of lines 239-246 run first
check_mesh_parent_range_first(m) ==
    IF \E he \in DOMAIN m.he_to_parent : m.he_to_parent[he] >= len(m.parents)
    THEN "ParentIndexOutOfBound"
    ELSE IF \E he \in DOMAIN m.he_to_vertex : m.he_to_vertex[he] >= len(m.vertices)
    THEN "VertexIndexOutOfBound"
    ELSE IF \E he \in DOMAIN m.he_to_twin : m.he_to_twin[he] >= len(m.he_to_vertex)
    THEN "HalfEdgeIndexOutOfBound"
    ELSE IF \E he \in DOMAIN m.he_to_twin : m.he_to_twin[m.he_to_twin[he]] # he
    THEN "TwinNotCorrect"
    ELSE IF \E he \in DOMAIN m.he_to_next_he : m.he_to_next_he[he] >= len(m.he_to_vertex)
    THEN "HalfEdgeIndexOutOfBound"
    ELSE IF \E he \in DOMAIN m.he_to_prev_he : m.he_to_prev_he[he] >= len(m.he_to_vertex)
    THEN "HalfEdgeIndexOutOfBound"
    ELSE IF \E he \in DOMAIN m.he_to_next_he : m.he_to_prev_he[m.he_to_next_he[he]] # he
    THEN "NextPrevNotCorrect"
    ELSE check_parents(m, 0)

\* check_mesh without the next/prev comparison of lines 213-222
check_mesh_without_next_prev(m) ==
    IF \E he \in DOMAIN m.he_to_vertex : m.he_to_vertex[he] >= len(m.vertices)
    THEN "VertexIndexOutOfBound"
    ELSE IF \E he \in DOMAIN m.he_to_twin : m.he_to_twin[he] >= len(m.he_to_vertex)
    THEN "HalfEdgeIndexOutOfBound"
    ELSE IF \E he \in DOMAIN m.he_to_twin : m.he_to_twin[m.he_to_twin[he]] # he
    THEN "TwinNotCorrect"
    ELSE IF \E he \in DOMAIN m.he_to_next_he : m.he_to_next_he[he] >= len(m.he_to_vertex)
    THEN "HalfEdgeIndexOutOfBound"
    ELSE IF \E he \in DOMAIN m.he_to_prev_he : m.he_to_prev_he[he] >= len(m.he_to_vertex)
    THEN "HalfEdgeIndexOutOfBound"
    ELSE IF \E he \in DOMAIN m.he_to_parent : m.he_to_parent[he] >= len(m.parents)
    THEN "ParentIndexOutOfBound"
    ELSE check_parents(m, 0)

check_mesh(m) ==
    IF \/ len(m.he_to_next_he) # len(m.he_to_twin)
       \/ len(m.he_to_prev_he) # len(m.he_to_twin)
       \/ len(m.he_to_vertex) # len(m.he_to_twin)
       \/ len(m.he_to_parent) # len(m.he_to_twin)
    THEN "Panic"
    ELSE IF \E he \in DOMAIN m.he_to_vertex : m.he_to_vertex[he] >= len(m.vertices)
    THEN "VertexIndexOutOfBound"
    ELSE IF \E he \in DOMAIN m.he_to_twin : m.he_to_twin[he] >= len(m.he_to_vertex)
    THEN "HalfEdgeIndexOutOfBound"
    ELSE IF \E he \in DOMAIN m.he_to_twin : m.he_to_twin[m.he_to_twin[he]] # he
    THEN "TwinNotCorrect"
    ELSE IF \E he \in DOMAIN m.he_to_next_he : m.he_to_next_he[he] >= len(m.he_to_vertex)
    THEN "HalfEdgeIndexOutOfBound"
    ELSE IF \E he \in DOMAIN m.he_to_prev_he : m.he_to_prev_he[he] >= len(m.he_to_vertex)
    THEN "HalfEdgeIndexOutOfBound"
    ELSE IF \E he \in DOMAIN m.he_to_next_he : m.he_to_prev_he[m.he_to_next_he[he]] # he
    THEN "NextPrevNotCorrect"
    ELSE IF \E he \in DOMAIN m.he_to_parent : m.he_to_parent[he] >= len(m.parents)
    THEN "ParentIndexOutOfBound"
    ELSE check_parents(m, 0)

\* Modifiable2DMesh::validate_topology: Ok(Safe2DMesh(self.0)) or the error
validate_topology(m) ==
    LET c == check_mesh(m)
    IN IF c = "Ok" THEN Result(m, "Ok", NoRet) ELSE Result(m, c, NoRet)

(***************************************************************************)
(* Computational2DMesh::new_from_he                                        *)
(***************************************************************************)
CellPatch(id) == [kind |-> "Cell", id |-> id]
BoundaryPatch(id) == [kind |-> "Boundary", id |-> id]

\* every Cell parent gets the CellIndex 0
parent_to_patch_loop_same_id(parents, i, cell_id, acc) ==
    [st |-> IF \E k \in DOMAIN parents : parents[k].kind = "None"
            THEN "Panic" ELSE "Ok",
     v |-> [k \in DOMAIN parents |->
              IF parents[k].kind = "Cell" THEN [kind |-> "Cell", id |-> 0]
              ELSE [kind |-> "Boundary", id |-> UsizeMax]]]

\* the loop with Parent::None taken for a boundary
RECURSIVE parent_to_patch_loop_none_as_boundary(_, _, _, _)
parent_to_patch_loop_none_as_boundary(parents, i, cell_id, acc) ==
    IF i >= len(parents) THEN [st |-> "Ok", v |-> acc]
    ELSE IF parents[i].kind = "Cell"
    THEN parent_to_patch_loop_none_as_boundary(parents, i + 1, cell_id + 1,
                                               Push(acc, CellPatch(cell_id)))
    ELSE parent_to_patch_loop_none_as_boundary(parents, i + 1, cell_id,
                                               Push(acc, BoundaryPatch(UsizeMax)))

\* lines 365-381: one CellIndex per Cell parent, in parent order
RECURSIVE parent_to_patch_loop(_, _, _, _)
parent_to_patch_loop(parents, i, cell_id, acc) ==
    IF i >= len(parents) THEN [st |-> "Ok", v |-> acc]
    ELSE IF parents[i].kind = "None" THEN [st |-> "Panic", v |-> acc]
    ELSE IF parents[i].kind = "Cell"
    THEN parent_to_patch_loop(parents, i + 1, cell_id + 1, Push(acc, CellPatch(cell_id)))
    ELSE parent_to_patch_loop(parents, i + 1, cell_id, Push(acc, BoundaryPatch(UsizeMax)))

\* lines 391-406: the patch on the side of half-edge he; the patch index a
\* boundary half-edge carries is kept with its Boundary parent
patch_of_he(m, parent_to_patch, he) ==
    IF m.parents[m.he_to_parent[he]].kind = "Boundary"
    THEN BoundaryPatch(m.parents[m.he_to_parent[he]].patch)
    ELSE parent_to_patch[m.he_to_parent[he]]

\* Face::new without its geometry
Face(vertices, patches) == [vertices |-> vertices, patches |-> patches]

\* the fold with each face given the vertices of the twin first
RECURSIVE faces_loop_twin_first(_, _, _, _, _)
faces_loop_twin_first(m, parent_to_patch, he, he_to_face, faces) ==
    IF he >= len(m.he_to_twin)
    THEN [st |-> "Ok", he_to_face |-> he_to_face, faces |-> faces]
    ELSE LET twin == m.he_to_twin[he]
         IN IF he < twin
            THEN faces_loop_twin_first(m, parent_to_patch, he + 1,
                     Push(he_to_face, len(faces)),
                     Push(faces, Face(vertices_from_he(m, twin),
                                      <<patch_of_he(m, parent_to_patch, he),
                                        patch_of_he(m, parent_to_patch, twin)>>)))
            ELSE IF he > twin
            THEN faces_loop_twin_first(m, parent_to_patch, he + 1,
                     Push(he_to_face, he_to_face[twin]), faces)
            ELSE [st |-> "Panic", he_to_face |-> he_to_face, faces |-> faces]

\* lines 386-417: fold the twin pairs into faces
RECURSIVE faces_loop(_, _, _, _, _)
faces_loop(m, parent_to_patch, he, he_to_face, faces) ==
    IF he >= len(m.he_to_twin)
    THEN [st |-> "Ok", he_to_face |-> he_to_face, faces |-> faces]
    ELSE LET twin == m.he_to_twin[he]
         IN IF he < twin
            THEN faces_loop(m, parent_to_patch, he + 1,
                     Push(he_to_face, len(faces)),
                     Push(faces, Face(vertices_from_he(m, he),
                                      <<patch_of_he(m, parent_to_patch, he),
                                        patch_of_he(m, parent_to_patch, twin)>>)))
            ELSE IF he > twin
            THEN faces_loop(m, parent_to_patch, he + 1,
                     Push(he_to_face, he_to_face[twin]), faces)
            ELSE [st |-> "Panic", he_to_face |-> he_to_face, faces |-> faces]

\* the vertices of the faces, every occurrence kept
RECURSIVE cell_vertices_repeated(_, _, _, _)
cell_vertices_repeated(faces_loc, faces_glob, k, vertices) ==
    IF k >= len(faces_loc) THEN vertices
    ELSE cell_vertices_repeated(faces_loc, faces_glob, k + 1,
             Push(Push(vertices, faces_glob[faces_loc[k]].vertices[1]),
                  faces_glob[faces_loc[k]].vertices[2]))

\* Cell::new, lines 128-139: the vertices of the faces, first occurrence only
RECURSIVE cell_vertices(_, _, _, _)
cell_vertices(faces_loc, faces_glob, k, vertices) ==
    IF k >= len(faces_loc) THEN vertices
    ELSE LET face == faces_glob[faces_loc[k]]
             v1 == IF \E j \in DOMAIN vertices : vertices[j] = face.vertices[1]
                   THEN vertices ELSE Push(vertices, face.vertices[1])
             v2 == IF \E j \in DOMAIN v1 : v1[j] = face.vertices[2]
                   THEN v1 ELSE Push(v1, face.vertices[2])
         IN cell_vertices(faces_loc, faces_glob, k + 1, v2)

\* lines 421-463: one cell per Cell patch; centroid_and_area panics on
\* fewer than three points
RECURSIVE cells_loop(_, _, _, _, _, _)
cells_loop(m, parent_to_patch, he_to_face, faces, parent, cells) ==
    IF parent >= len(parent_to_patch) THEN [st |-> "Ok", cells |-> cells]
    ELSE IF parent_to_patch[parent].kind = "Boundary"
    THEN cells_loop(m, parent_to_patch, he_to_face, faces, parent + 1, cells)
    ELSE LET c == he_from_parent(m, parent)
             faces_loc == [k \in DOMAIN c.hes |-> he_to_face[c.hes[k]]]
             vs == cell_vertices(faces_loc, faces, 0, EmptyVec)
         IN IF m.parents[parent].kind # "Cell" THEN [st |-> "Panic", cells |-> cells]
            ELSE IF c.st # "Ok" THEN [st |-> c.st, cells |-> cells]
            ELSE IF parent_to_patch[parent].id # len(cells)
            THEN [st |-> "Panic", cells |-> cells]
            ELSE IF len(vs) < 3 THEN [st |-> "Panic", cells |-> cells]
            ELSE cells_loop(m, parent_to_patch, he_to_face, faces, parent + 1,
                            Push(cells, [faces |-> faces_loc, vertices |-> vs]))

NoMesh == [st |-> "None"]

new_from_he(m) ==
    LET pp == parent_to_patch_loop(m.parents, 0, 0, EmptyVec)
        fl == faces_loop(m, pp.v, 0, EmptyVec, EmptyVec)
        cl == cells_loop(m, pp.v, fl.he_to_face, fl.faces, 0, EmptyVec)
    IN IF pp.st # "Ok" THEN [st |-> pp.st]
       ELSE IF fl.st # "Ok" THEN [st |-> fl.st]
       ELSE IF cl.st # "Ok" THEN [st |-> cl.st]
       ELSE [st |-> "Ok", cells |-> cl.cells, faces |-> fl.faces,
             vertices |-> m.vertices, he_to_face |-> fl.he_to_face]

(***************************************************************************)
(* geometry.rs and the geometry a Computational2DMesh keeps                *)
(*                                                                         *)
(* A length or an area is kept exactly, as a fraction num / den of         *)
(* integers with den > 0; a point as x / den, y / den.  nan marks the      *)
(* result of 0. / 0.                                                       *)
(***************************************************************************)
Abs(x) == IF x < 0 THEN 0 - x ELSE x
cross(a, b) == a[1] * b[2] - a[2] * b[1]
dot(a, b) == a[1] * b[1] + a[2] * b[2]
minus(a, b) == <<a[1] - b[1], a[2] - b[2]>>

\* line_normal before normalize(): the direction from points[1] to
\* points[2] turned a quarter counter-clockwise; normalize() divides by
\* the norm, a positive number when the two points differ
line_normal(points) ==
    <<points[1][2] - points[2][2], points[2][1] - points[1][1]>>

\* triangle_area of three points scaled by k: Heron's formula gives the
\* area of the triangle, half the absolute cross product
triangle_area(points, k) ==
    [num |-> Abs(cross(minus(points[2], points[1]), minus(points[3], points[1]))),
     den |-> 2 * k * k]

\* triangle_centroid of three points scaled by k
triangle_centroid(points, k) ==
    [nan |-> FALSE,
     x |-> points[1][1] + points[2][1] + points[3][1],
     y |-> points[1][2] + points[2][2] + points[3][2],
     den |-> 3 * k]

\* the loop of geometric_center: the sum of the points from index i on
RECURSIVE points_sum(_, _)
points_sum(points, i) ==
    IF i >= len(points) THEN <<0, 0>>
    ELSE <<points[i][1] + points_sum(points, i + 1)[1],
           points[i][2] + points_sum(points, i + 1)[2]>>

\* n times geometric_center of the n points
geometric_center(points) == points_sum(points, 0)

\* the loop of lines 43-50 over the sub-triangles
\* [points[i], points[i % len], geometric_center], every point scaled by
\* n = len: acc holds area * 2n^2 and the centroid sums * 6n^3
RECURSIVE centroid_and_area_loop(_, _, _)
centroid_and_area_loop(points, i, acc) ==
    IF i >= len(points) THEN acc
    ELSE LET n == len(points)
             triangle == << <<n * points[i][1], n * points[i][2]>>,
                            <<n * points[i % n][1], n * points[i % n][2]>>,
                            geometric_center(points) >>
             sub_area == triangle_area(triangle, n)
             sub_centroid == triangle_centroid(triangle, n)
         IN centroid_and_area_loop(points, i + 1,
                [area |-> acc.area + sub_area.num,
                 x |-> acc.x + sub_centroid.x * sub_area.num,
                 y |-> acc.y + sub_centroid.y * sub_area.num])

\* centroid_and_area: the panic under three points, the triangle, the loop
\* and the division centroid / area
centroid_and_area(points) ==
    IF len(points) < 3 THEN [st |-> "Panic"]
    ELSE IF len(points) = 3
    THEN LET t == <<points[0], points[1], points[2]>>
         IN [st |-> "Ok", centroid |-> triangle_centroid(t, 1),
             area |-> triangle_area(t, 1)]
    ELSE LET n == len(points)
             r == centroid_and_area_loop(points, 0, [area |-> 0, x |-> 0, y |-> 0])
         IN [st |-> "Ok",
             centroid |-> IF r.area = 0
                          THEN [nan |-> TRUE, x |-> 0, y |-> 0, den |-> 1]
                          ELSE [nan |-> FALSE, x |-> r.x, y |-> r.y,
                                den |-> 3 * n * r.area],
             area |-> [num |-> r.area, den |-> 2 * n * n]]

\* the Cell that Cell::new makes of cell k of c: volume and centroid are
\* centroid_and_area of the positions of its vertices
cell_points(c, k) ==
    [j \in DOMAIN c.cells[k].vertices |-> c.vertices[c.cells[k].vertices[j]]]
Cell(c, k) ==
    [volume |-> centroid_and_area(cell_points(c, k)).area,
     centroid |-> centroid_and_area(cell_points(c, k)).centroid,
     faces |-> c.cells[k].faces,
     vertices |-> c.cells[k].vertices]

\* the derived PartialEq of Cell: f64 equality, under which a NaN is equal
\* to nothing, itself included
cell_eq(a, b) == a = b /\ ~ a.centroid.nan

\* the normal Face::new stores for face f of c
face_normal(c, f) ==
    line_normal(<<c.vertices[c.faces[f].vertices[1]],
                  c.vertices[c.faces[f].vertices[2]]>>)

\* Face::middle_point: lerp at 0.5
middle_point(c, f) ==
    [x |-> c.vertices[c.faces[f].vertices[1]][1] + c.vertices[c.faces[f].vertices[2]][1],
     y |-> c.vertices[c.faces[f].vertices[1]][2] + c.vertices[c.faces[f].vertices[2]][2],
     den |-> 2]

neg(v) == <<0 - v[1], 0 - v[2]>>

\* Face::normal_from_cell: Some(normal), Some(-normal) or None
normal_from_cell(c, f, cell) ==
    IF c.faces[f].patches[1] = CellPatch(cell)
    THEN [some |-> TRUE, v |-> face_normal(c, f)]
    ELSE IF c.faces[f].patches[2] = CellPatch(cell)
    THEN [some |-> TRUE, v |-> neg(face_normal(c, f))]
    ELSE [some |-> FALSE, v |-> <<0, 0>>]

\* Computational2DMesh::normals_from_cell, one vector per face of the cell
normals_from_cell(c, cell) ==
    [i \in DOMAIN c.cells[cell].faces |->
        LET f == c.cells[cell].faces[i]
        IN IF c.faces[f].patches[1] = CellPatch(cell)
           THEN face_normal(c, f) ELSE neg(face_normal(c, f))]

\* the filter_map of Cell::neighboring_cells_id over the faces from i on
RECURSIVE neighboring_cells_loop(_, _, _, _)
neighboring_cells_loop(c, cell, i, acc) ==
    IF i >= len(c.cells[cell].faces) THEN acc
    ELSE LET face == c.faces[c.cells[cell].faces[i]]
             found ==
                 IF face.patches[1].kind = "Cell"
                 THEN IF cell_eq(Cell(c, face.patches[1].id), Cell(c, cell))
                      THEN IF face.patches[2].kind = "Cell"
                           THEN <<face.patches[2].id>> ELSE <<>>
                      ELSE <<face.patches[1].id>>
                 ELSE <<>>
         IN neighboring_cells_loop(c, cell, i + 1,
                IF found = <<>> THEN acc ELSE Push(acc, found[1]))

neighboring_cells_id(c, cell) == neighboring_cells_loop(c, cell, 0, EmptyVec)

\* Face::geometric_weighting_factor: the panic on a face with a boundary
\* on both sides, else the patches it returns (the factor is left out)
geometric_weighting_factor(c, f) ==
    IF c.faces[f].patches[1].kind # "Cell" /\ c.faces[f].patches[2].kind # "Cell"
    THEN [st |-> "Panic"]
    ELSE [st |-> "Ok", patches |-> c.faces[f].patches]

(***************************************************************************)
(* Inputs                                                                  *)
(***************************************************************************)
\* corner i of a closed boundary of n edges, counter-clockwise: the corners
\* of the unit square, further corners on its left side
BoundaryPoint(i) ==
    IF i = 0 THEN <<0, 0>>
    ELSE IF i = 1 THEN <<PosScale, 0>>
    ELSE IF i = 2 THEN <<PosScale, PosScale>>
    ELSE IF i = 3 THEN <<0, PosScale>>
    ELSE <<0, PosScale \div (2 ^ (i - 3))>>

\* the boundary of test.rs simple_mesh for n = 4: edge i runs from corner i
\* to corner i + 1 (wrapping) and names the Boundary parent parent_of[i]
BoundaryVertices(n) == [i \in 0..(n - 1) |-> BoundaryPoint(i)]
BoundaryEdges(n, parent_of) ==
    [i \in 0..(n - 1) |-> <<i, (i + 1) % n, parent_of[i]>>]
BoundaryParents(np) == [k \in 0..(np - 1) |-> [kind |-> "Boundary", patch |-> k]]

simple_mesh ==
    new_from_boundary(BoundaryVertices(4), BoundaryEdges(4, [i \in 0..3 |-> 0]),
                      BoundaryParents(1)).m

InitialMeshes ==
    {new_from_boundary(BoundaryVertices(n), BoundaryEdges(n, [i \in 0..(n - 1) |-> 0]),
                       BoundaryParents(1)).m : n \in 1..MaxEdges}

\* boundaries of 1..MaxEdges edges over 1..MaxParents Boundary parents:
\* edge i names any of the parents and runs from corner i to corner
\* i + stride; stride 1 is a closed boundary in cyclic order
BoundaryEdgesBy(n, stride, parent_of) ==
    [i \in 0..(n - 1) |-> <<i, (i + stride) % n, parent_of[i]>>]

\* half-edge stores built by hand rather than by new_from_boundary: the
\* arrays of a Base2DMesh of StoreHalfEdges half-edges over one vertex
Fn(n, S) == [0..(n - 1) -> S]
Bijections(n) == {f \in Fn(n, 0..(n - 1)) : \A i, j \in 0..(n - 1) : f[i] = f[j] => i = j}
Inverse(f) == [i \in DOMAIN f |-> CHOOSE j \in DOMAIN f : f[j] = i]
Identity(n) == [i \in 0..(n - 1) |-> i]
Swap01(n) == [i \in 0..(n - 1) |-> IF i = 0 THEN 1 ELSE IF i = 1 THEN 0 ELSE i]

StoreOf(vtx, tw, nx, pv, par, parents, first) ==
    [vertices |-> Vec(<< <<0, 0>> >>),
     he_to_vertex |-> vtx,
     he_to_twin |-> tw,
     he_to_next_he |-> nx,
     he_to_prev_he |-> pv,
     he_to_parent |-> par,
     parents |-> parents,
     parent_to_first_he |-> first]

OneCell == Vec(<< [kind |-> "Cell"] >>)
OneBoundary == Vec(<< [kind |-> "Boundary", patch |-> 0] >>)
OneNone == Vec(<< [kind |-> "None"] >>)
BoundaryAndCell == Vec(<< [kind |-> "Boundary", patch |-> 0], [kind |-> "Cell"] >>)

\* origins: all in range, or the last one past the end
StoreOrigins(n) ==
    {[i \in 0..(n - 1) |-> 0], [i \in 0..(n - 1) |-> IF i = n - 1 THEN 1 ELSE 0]}

\* twins: two involutions, one index past the end, two maps that are not
\* involutions
StoreTwins(n) ==
    {Identity(n), Swap01(n),
     [i \in 0..(n - 1) |-> IF i = 0 THEN n ELSE i],
     [i \in 0..(n - 1) |-> (i + 1) % n],
     [i \in 0..(n - 1) |-> 0]}

\* s is a store with any next and prev array, indices past the end
\* included, under a few origins, twins and parents
LinkStore(s, n) ==
    \E vtx \in StoreOrigins(n), tw \in StoreTwins(n),
       nx \in Fn(n, 0..n), pv \in Fn(n, 0..n),
       par \in {[i \in 0..(n - 1) |-> 0],
                [i \in 0..(n - 1) |-> IF i = n - 1 THEN 1 ELSE 0]} :
        s = StoreOf(vtx, tw, nx, pv, par, OneCell, Vec(<<0>>))

\* s is a store with any parent array and any parent_to_first_he array,
\* indices past the end and a parent_to_first_he shorter than parents
\* included, over a permutation next with its inverse prev
ParentStore(s, n) ==
    \E tw \in {Identity(n), Swap01(n)}, nx \in Bijections(n) :
        \/ \E par \in Fn(n, 0..1), first \in Fn(1, 0..n),
                 parents \in {OneCell, OneBoundary, OneNone} :
              s = StoreOf([i \in 0..(n - 1) |-> 0], tw, nx, Inverse(nx), par,
                          parents, first)
        \/ \E par \in Fn(n, 0..2), first \in Fn(1, 0..n) \cup Fn(2, 0..n) :
              s = StoreOf([i \in 0..(n - 1) |-> 0], tw, nx, Inverse(nx), par,
                          BoundaryAndCell, first)

\* s has arrays of different lengths: he_to_parent is one entry short
RaggedStore(s, n) ==
    \E nx \in Bijections(n) :
        s = StoreOf([i \in 0..(n - 1) |-> 0], Swap01(n), nx, Inverse(nx),
                    [i \in 0..(n - 2) |-> 0], OneCell, Vec(<<0>>))

ArbitraryStore(s) ==
    \/ LinkStore(s, StoreHalfEdges)
    \/ ParentStore(s, StoreHalfEdges)
    \/ RaggedStore(s, StoreHalfEdges)

\* arguments of the calls: every index in range and one past the end
RatioArgs == {-1, 0, 1, 2, RatioDen, RatioDen + 1}
NotchPoints == {<<PosScale \div 2, PosScale \div 2>>}

(***************************************************************************)
(* The program: a Modifiable2DMesh is built from a boundary, edited,       *)
(* validated into a Safe2DMesh and converted into a Computational2DMesh    *)
(***************************************************************************)
NoPos == <<0, 0>>
Call(op, he, t, u, v, p, pos, res, ret) ==
    [op |-> op, he |-> he, t |-> t, u |-> u, v |-> v, p |-> p, pos |-> pos,
     res |-> res, ret |-> ret]

Init ==
    /\ mesh \in InitialMeshes
    /\ built_he = he_len(mesh)
    /\ refused = FALSE
    /\ last = Call("new_from_boundary", NoRet, NoRet, NoRet, NoRet, NoRet, NoPos,
                   "Ok", NoRet)
    /\ safe = NoMesh
    /\ comp = NoMesh

\* the mesh is still owned by a Modifiable2DMesh and no call has panicked
Modifiable ==
    /\ last.res # "Panic"
    /\ last.op \notin {"validate_topology", "new_from_he"}

\* a mutating call may still be made: a refused call has changed nothing,
\* so the calls that can follow it are the calls that could be made in its
\* place, and the run is continued from the state before it
Editable == Modifiable /\ ~ refused

\* the store may still gain n half-edges
MayGrow(n) == he_len(mesh) + n <= built_he + MaxGrowth

\* the effect of a mutating call with result r on the store; a call that
\* returns an error and leaves the store as it was is refused
Returns(r) ==
    /\ mesh' = r.m
    /\ refused' = (r.res \notin {"Ok", "Panic"} /\ r.m = mesh)
    /\ UNCHANGED <<safe, comp, built_he>>

SplitEdge ==
    /\ Editable
    /\ MayGrow(2)
    /\ \E he \in 0..he_len(mesh), t \in RatioArgs :
         \E r \in {split_edge(mesh, he, t)} :
            /\ Returns(r)
            /\ last' = Call("split_edge", he, t, NoRet, NoRet, NoRet, NoPos,
                            r.res, r.ret)

Trimming ==
    /\ Editable
    /\ MayGrow(2)
    /\ \E u \in 0..vertices_len(mesh), v \in 0..vertices_len(mesh),
          p \in 0..parents_len(mesh) :
         \E r \in {trimming(mesh, <<u, v>>, p)} :
            /\ Returns(r)
            /\ last' = Call("trimming", NoRet, NoRet, u, v, p, NoPos, r.res, r.ret)

Notching ==
    /\ Editable
    /\ MayGrow(4)
    /\ \E he \in 0..he_len(mesh), pos \in NotchPoints :
         \E r \in {notching(mesh, he, pos)} :
            /\ Returns(r)
            /\ last' = Call("notching", he, NoRet, NoRet, NoRet, NoRet, pos,
                            r.res, r.ret)

ValidateTopology ==
    /\ Modifiable
    /\ \E r \in {validate_topology(mesh)} :
          /\ last' = Call("validate_topology", NoRet, NoRet, NoRet, NoRet, NoRet,
                          NoPos, r.res, r.ret)
          /\ safe' = IF r.res = "Ok" THEN [st |-> "Ok", m |-> r.m] ELSE NoMesh
    /\ UNCHANGED <<mesh, comp, built_he, refused>>

NewFromHe ==
    /\ last.op = "validate_topology"
    /\ safe # NoMesh
    /\ \E c \in {new_from_he(safe.m)} :
          /\ comp' = c
          /\ last' = Call("new_from_he", NoRet, NoRet, NoRet, NoRet, NoRet, NoPos,
                          IF c.st = "Ok" THEN "Ok" ELSE "Panic", NoRet)
    /\ UNCHANGED <<mesh, safe, built_he, refused>>

Next == SplitEdge \/ Trimming \/ Notching \/ ValidateTopology \/ NewFromHe

Spec == Init /\ [][Next]_vars

\* new_from_boundary called on any boundary, then validation and conversion
CallNewFromBoundary(vertices, edges, parents) ==
    [op |-> "new_from_boundary", he |-> NoRet, t |-> NoRet, u |-> NoRet,
     v |-> NoRet, p |-> NoRet, pos |-> NoPos, res |-> "Ok", ret |-> NoRet,
     vertices |-> vertices, edges |-> edges, parents |-> parents]

InitBoundary ==
    /\ \E n \in 1..MaxEdges, np \in 1..MaxParents, stride \in 1..2 :
         \E parent_of \in [0..(n - 1) -> 0..(np - 1)] :
            /\ last = CallNewFromBoundary(BoundaryVertices(n),
                                          BoundaryEdgesBy(n, stride, parent_of),
                                          BoundaryParents(np))
            /\ mesh = new_from_boundary(BoundaryVertices(n),
                                        BoundaryEdgesBy(n, stride, parent_of),
                                        BoundaryParents(np)).m
    /\ built_he = he_len(mesh)
    /\ refused = FALSE
    /\ safe = NoMesh
    /\ comp = NoMesh

NextBoundary == ValidateTopology \/ NewFromHe

SpecBoundary == InitBoundary /\ [][NextBoundary]_vars

\* the same validation and conversion applied to a store built by hand
InitStore ==
    /\ ArbitraryStore(mesh)
    /\ built_he = he_len(mesh)
    /\ refused = FALSE
    /\ last = Call("store", NoRet, NoRet, NoRet, NoRet, NoRet, NoPos, "Ok", NoRet)
    /\ safe = NoMesh
    /\ comp = NoMesh

NextStore == ValidateTopology \/ NewFromHe

SpecStore == InitStore /\ [][NextStore]_vars

(***************************************************************************)
(* Properties                                                              *)
(***************************************************************************)
\* the three link equations of one store
LinksSymmetric(m) ==
    \A h \in DOMAIN m.he_to_twin :
        /\ InRange(m.he_to_twin[h], m.he_to_twin)
        /\ m.he_to_twin[m.he_to_twin[h]] = h
        /\ m.he_to_twin[h] # h
        /\ InRange(m.he_to_next_he[h], m.he_to_prev_he)
        /\ m.he_to_prev_he[m.he_to_next_he[h]] = h

\* C1: in every state reached from a new_from_boundary mesh of at least one
\* edge by split_edge, trimming and notching calls that return (Ok or Err,
\* any arguments), every half-edge h has twin(twin(h)) = h, twin(h) # h and
\* prev(next(h)) = h.
C1_LinksSymmetric ==
    (last.res # "Panic") => LinksSymmetric(mesh)

\* a split followed by a successful trimming
C1_Witness ==
    /\ last.op = "trimming"
    /\ last.res = "Ok"
    /\ he_len(mesh) = built_he + 4
    /\ 2 * vertices_len(mesh) > built_he
    /\ LinksSymmetric(mesh)

\* C2: if the mesh passes check_mesh and trimming((u, v), p) returns Ok, for
\* any vertices u, v and any parent p, the resulting mesh passes check_mesh.
C2_TrimmingKeepsCheckMesh ==
    [][(check_mesh(mesh) = "Ok" /\ last'.op = "trimming" /\ last'.res = "Ok")
       => check_mesh(mesh') = "Ok"]_vars

\* the unit square after trimming((0, 0), 1): the call returned Ok and the
\* mesh no longer passes check_mesh
C2_Witness ==
    /\ last.op = "trimming"
    /\ last.res = "Ok"
    /\ last.u = 0 /\ last.v = 0 /\ last.p = 1
    /\ mesh = trimming(simple_mesh, <<0, 0>>, 1).m
    /\ check_mesh(simple_mesh) = "Ok"
    /\ check_mesh(mesh) # "Ok"

\* C3: a successful split_edge (any in-range half-edge, any ratio strictly
\* between 0 and 1) of a mesh that passes check_mesh leaves a mesh that
\* passes check_mesh; so does any number of them, half-edges created by
\* earlier splits included.
C3_SplitKeepsCheckMesh ==
    [][(check_mesh(mesh) = "Ok" /\ last'.op = "split_edge" /\ last'.res = "Ok")
       => check_mesh(mesh') = "Ok"]_vars

\* two splits in a row, the second of a half-edge the first created
C3_Witness ==
    /\ last.op = "split_edge"
    /\ last.res = "Ok"
    /\ last.he >= built_he
    /\ he_len(mesh) = built_he + 4
    /\ 2 * vertices_len(mesh) = built_he + 4
    /\ check_mesh(mesh) = "Ok"

\* C4: split_edge(h, t) returns HalfEdgeIndexOutOfBound when h is no
\* half-edge, whatever t is; otherwise WrongFloatValue when t <= 0 or
\* t >= 1; a failing call changes nothing of the mesh.
C4_SplitErrors ==
    [][(last'.op = "split_edge") =>
         /\ (last'.he >= he_len(mesh)) => last'.res = "HalfEdgeIndexOutOfBound"
         /\ (last'.he < he_len(mesh) /\ (last'.t <= 0 \/ last'.t >= RatioDen))
               => last'.res = "WrongFloatValue"
         /\ (last'.res # "Ok") => mesh' = mesh]_vars

\* a call with both a half-edge out of range and the ratio 0, on a mesh
\* that has been edited
C4_Witness ==
    /\ last.op = "split_edge"
    /\ last.he >= he_len(mesh)
    /\ last.t = 0
    /\ last.res = "HalfEdgeIndexOutOfBound"
    /\ he_len(mesh) > built_he

\* a call with the ratio 1 on an existing half-edge
C4_WitnessRatioOne ==
    /\ last.op = "split_edge"
    /\ last.he < he_len(mesh)
    /\ last.t = RatioDen
    /\ last.res = "WrongFloatValue"

\* the number of half-edges on the cycle through he: the walk of
\* he_from_parent started at he; NoRet when it does not close
cycle_len(m, he) ==
    LET w == he_from_parent_walk(m, he, m.he_to_next_he[he], Push(EmptyVec, he))
    IN IF w.st = "Ok" THEN len(w.hes) ELSE NoRet

\* the length of he_from_parent(parent_id); NoRet when it does not return
parent_cycle_len(m, parent_id) ==
    IF he_from_parent(m, parent_id).st = "Ok"
    THEN len(he_from_parent(m, parent_id).hes) ELSE NoRet

\* C5: after a successful split_edge(h, t) with old twin tw, the half-edges
\* h' = |HE| and t' = |HE| + 1 exist and originate at the new vertex; twins
\* are h <-> t' and h' <-> tw; next(h) = h', next(h') = old next(h),
\* next(tw) = t', next(t') = old next(tw), prev being the inverse of next;
\* parent(h') = parent(h), parent(t') = parent(tw); h ends at the new vertex
\* and h' at the old end of h.
C5_SplitStructure ==
    [][(last'.op = "split_edge" /\ last'.res = "Ok") =>
         LET h == last'.he
             tw == mesh.he_to_twin[h]
             h2 == he_len(mesh)
             t2 == he_len(mesh) + 1
             nv == vertices_len(mesh)
             n == mesh'
         IN /\ he_len(n) = he_len(mesh) + 2
            /\ n.he_to_vertex[h2] = nv /\ n.he_to_vertex[t2] = nv
            /\ n.he_to_twin[h] = t2 /\ n.he_to_twin[t2] = h
            /\ n.he_to_twin[h2] = tw /\ n.he_to_twin[tw] = h2
            /\ n.he_to_next_he[h] = h2
            /\ n.he_to_next_he[h2] = mesh.he_to_next_he[h]
            /\ n.he_to_next_he[tw] = t2
            /\ n.he_to_next_he[t2] = mesh.he_to_next_he[tw]
            /\ \A k \in DOMAIN n.he_to_next_he :
                  n.he_to_prev_he[n.he_to_next_he[k]] = k
            /\ n.he_to_parent[h2] = mesh.he_to_parent[h]
            /\ n.he_to_parent[t2] = mesh.he_to_parent[tw]
            /\ n.he_to_parent[h] = mesh.he_to_parent[h]
            /\ n.he_to_parent[tw] = mesh.he_to_parent[tw]
            /\ n.he_to_vertex[h] = mesh.he_to_vertex[h]
            /\ vertices_from_he(n, h)[2] = nv
            /\ vertices_from_he(n, h2)[2] = vertices_from_he(mesh, h)[2]]_vars

\* a successful split of a half-edge of the unit square
C5_Witness ==
    /\ last.op = "split_edge"
    /\ last.res = "Ok"
    /\ built_he = 8
    /\ he_len(mesh) = 10
    /\ mesh.he_to_twin[last.he] = 9
    /\ mesh.he_to_next_he[last.he] = 8

\* C6: a successful split_edge(h, t) adds exactly two half-edges and one
\* vertex, leaves parents and parent_to_first_he as they were, and makes the
\* cycle through h and the cycle through twin(h) one half-edge longer; where
\* the mesh passes check_mesh these are he_from_parent(parent(h)) and
\* he_from_parent(parent(twin(h))).  On the unit square, split_edge(1, 0.5)
\* gives 10 half-edges and a boundary cycle of 5.
C6_SplitCounts ==
    [][(last'.op = "split_edge" /\ last'.res = "Ok") =>
         LET h == last'.he
             tw == mesh.he_to_twin[h]
         IN /\ he_len(mesh') = he_len(mesh) + 2
            /\ vertices_len(mesh') = vertices_len(mesh) + 1
            /\ mesh'.parents = mesh.parents
            /\ mesh'.parent_to_first_he = mesh.parent_to_first_he
            /\ cycle_len(mesh, h) >= 1
            /\ cycle_len(mesh', h) = cycle_len(mesh, h) + 1
            /\ cycle_len(mesh, tw) >= 1
            /\ cycle_len(mesh', tw) = cycle_len(mesh, tw) + 1
            /\ (check_mesh(mesh) = "Ok") =>
                 /\ parent_cycle_len(mesh', mesh.he_to_parent[h])
                       = parent_cycle_len(mesh, mesh.he_to_parent[h]) + 1
                 /\ parent_cycle_len(mesh', mesh.he_to_parent[tw])
                       = parent_cycle_len(mesh, mesh.he_to_parent[tw]) + 1
            /\ (mesh = simple_mesh /\ h = 1 /\ 2 * last'.t = RatioDen) =>
                 /\ he_len(mesh') = 10
                 /\ parent_cycle_len(mesh', 0) = 5
                 /\ mesh'.parents[0].kind = "Boundary"]_vars

\* the unit square after split_edge(1, 0.5)
C6_Witness ==
    /\ last.op = "split_edge"
    /\ last.res = "Ok"
    /\ last.he = 1
    /\ 2 * last.t = RatioDen
    /\ mesh = split_edge(simple_mesh, 1, RatioDen \div 2).m
    /\ he_len(mesh) = 10
    /\ parent_cycle_len(mesh, 0) = 5
    /\ parent_cycle_len(mesh, 1) = 5

\* C7 as stated: on the unit square, split_edge(1, 0.5) appends a vertex at
\* (1, 0.5).
C7_SplitVertexAtOneHalf ==
    [][(mesh = simple_mesh /\ last'.op = "split_edge" /\ last'.he = 1
            /\ 2 * last'.t = RatioDen) =>
         /\ last'.res = "Ok"
         /\ vertices_len(mesh') = 5
         /\ mesh'.vertices[4] = <<PosScale, PosScale \div 2>>]_vars

\* C7 amended: half-edge 1 of the unit square is the boundary twin of the
\* first edge and runs from (1, 0) to (0, 0); split_edge(1, 0.5) appends a
\* vertex at (0.5, 0), the linear interpolation at 0.5 between the origin
\* and the end of half-edge 1.
C7_SplitVertexOnFirstEdge ==
    [][(mesh = simple_mesh /\ last'.op = "split_edge" /\ last'.he = 1
            /\ 2 * last'.t = RatioDen) =>
         /\ last'.res = "Ok"
         /\ vertices_len(mesh') = 5
         /\ mesh.vertices[vertices_from_he(mesh, 1)[1]] = <<PosScale, 0>>
         /\ mesh.vertices[vertices_from_he(mesh, 1)[2]] = <<0, 0>>
         /\ mesh'.vertices[4] = <<PosScale \div 2, 0>>
         /\ \A k \in 0..3 : mesh'.vertices[k] = mesh.vertices[k]]_vars

\* the unit square after split_edge(1, 0.5), its fifth vertex at (0.5, 0)
C7_Witness ==
    /\ last.op = "split_edge"
    /\ last.res = "Ok"
    /\ last.he = 1
    /\ 2 * last.t = RatioDen
    /\ built_he = 8
    /\ vertices_len(mesh) = 5
    /\ mesh.vertices[4] = <<PosScale \div 2, 0>>
    /\ \A k \in 0..3 : mesh.vertices[k] = simple_mesh.vertices[k]

\* some half-edge runs from vertex a to vertex b
edge_exists(m, a, b) ==
    \E he \in DOMAIN m.he_to_twin : vertices_from_he(m, he) = <<a, b>>

\* he_from_parent(parent) exists and holds a half-edge originating at a
cycle_leaves(m, parent, a) ==
    /\ parent < parents_len(m)
    /\ \E k \in DOMAIN he_from_parent(m, parent).hes :
          m.he_to_vertex[he_from_parent(m, parent).hes[k]] = a

\* C8: on a mesh that passes check_mesh, trimming((u, v), p) returns
\* VertexIndexOutOfBound if u or v is no vertex; otherwise AlreadyExists if
\* a half-edge runs from u to v or from v to u; otherwise
\* ParentDoesNotContainVertex if the cycle of p has no half-edge originating
\* at u or none originating at v, p being no parent included; in each of
\* these cases the mesh is left as it was.
C8_TrimmingErrors ==
    [][(check_mesh(mesh) = "Ok" /\ last'.op = "trimming") =>
         LET u == last'.u
             v == last'.v
             p == last'.p
             exist == u < vertices_len(mesh) /\ v < vertices_len(mesh)
             joined == edge_exists(mesh, u, v) \/ edge_exists(mesh, v, u)
             inside == cycle_leaves(mesh, p, u) /\ cycle_leaves(mesh, p, v)
         IN /\ (~ exist) =>
                 (last'.res = "VertexIndexOutOfBound" /\ mesh' = mesh)
            /\ (exist /\ joined) =>
                 (last'.res = "AlreadyExists" /\ mesh' = mesh)
            /\ (exist /\ ~ joined /\ ~ inside) =>
                 (last'.res = "ParentDoesNotContainVertex" /\ mesh' = mesh)]_vars

\* two joined vertices and a parent that is none, on an edited mesh that
\* passes check_mesh
C8_Witness ==
    /\ last.op = "trimming"
    /\ last.res = "AlreadyExists"
    /\ last.p >= parents_len(mesh)
    /\ last.u # last.v
    /\ he_len(mesh) > built_he
    /\ check_mesh(mesh) = "Ok"

\* an existing parent whose cycle does not pass through v
C8_WitnessOutside ==
    /\ last.op = "trimming"
    /\ last.res = "ParentDoesNotContainVertex"
    /\ last.p < parents_len(mesh)
    /\ cycle_leaves(mesh, last.p, last.u)
    /\ ~ cycle_leaves(mesh, last.p, last.v)
    /\ check_mesh(mesh) = "Ok"

\* the half-edges of vector hes from position 1 on follow one another by
\* next in mesh m, the first leaves vertex a and the last enters vertex b
old_segment(m, hes, a, b) ==
    /\ len(hes) >= 2
    /\ m.he_to_vertex[hes[1]] = a
    /\ vertices_from_he(m, hes[len(hes) - 1])[2] = b
    /\ \A k \in 1..(len(hes) - 2) : m.he_to_next_he[hes[k]] = hes[k + 1]

\* C9: a successful trimming((u, v), p) with u # v on a mesh that passes
\* check_mesh appends two half-edges, a from v to u with parent p and its
\* twin b from u to v with the new parent, no vertex, and one Cell parent
\* whose index, the former parent count, is returned; the cycle of p is then
\* a followed by the old cycle from the half-edge leaving u up to the one
\* entering v, the cycle of the new parent is b followed by the rest of the
\* old cycle, and parent_to_first_he[p] = a.
C9_TrimmingStructure ==
    [][(check_mesh(mesh) = "Ok" /\ last'.op = "trimming" /\ last'.res = "Ok"
            /\ last'.u # last'.v) =>
         LET u == last'.u
             v == last'.v
             p == last'.p
             a == he_len(mesh)
             b == he_len(mesh) + 1
             q == parents_len(mesh)
             n == mesh'
             old == he_from_parent(mesh, p).hes
             cp == he_from_parent(n, p)
             cq == he_from_parent(n, q)
         IN /\ he_len(n) = he_len(mesh) + 2
            /\ vertices_from_he(n, a) = <<v, u>>
            /\ vertices_from_he(n, b) = <<u, v>>
            /\ n.he_to_twin[a] = b /\ n.he_to_twin[b] = a
            /\ n.he_to_parent[a] = p /\ n.he_to_parent[b] = q
            /\ n.vertices = mesh.vertices
            /\ n.parents = Push(mesh.parents, [kind |-> "Cell"])
            /\ last'.ret = q
            /\ n.parent_to_first_he[p] = a
            /\ cp.st = "Ok" /\ cq.st = "Ok"
            /\ cp.hes[0] = a /\ cq.hes[0] = b
            /\ old_segment(mesh, cp.hes, u, v)
            /\ old_segment(mesh, cq.hes, v, u)
            /\ mesh.he_to_next_he[cp.hes[len(cp.hes) - 1]] = cq.hes[1]
            /\ mesh.he_to_next_he[cq.hes[len(cq.hes) - 1]] = cp.hes[1]
            /\ len(cp.hes) + len(cq.hes) = len(old) + 2
            /\ {cp.hes[k] : k \in 1..(len(cp.hes) - 1)}
                 \cup {cq.hes[k] : k \in 1..(len(cq.hes) - 1)}
                 = {old[k] : k \in DOMAIN old}
            /\ \A k \in DOMAIN cp.hes : n.he_to_parent[cp.hes[k]] = p
            /\ \A k \in DOMAIN cq.hes : n.he_to_parent[cq.hes[k]] = q]_vars

\* a successful trimming between two different vertices of a cell of a
\* split boundary, each side keeping at least two old half-edges
C9_Witness ==
    /\ last.op = "trimming"
    /\ last.res = "Ok"
    /\ last.u # last.v
    /\ last.ret = parents_len(mesh) - 1
    /\ he_len(mesh) = built_he + 4
    /\ 2 * vertices_len(mesh) > built_he
    /\ parent_cycle_len(mesh, last.p) >= 3
    /\ parent_cycle_len(mesh, last.ret) >= 3
    /\ check_mesh(mesh) = "Ok"

\* the number of faces of computational mesh c with nc Cell patches
faces_with_cells(c, nc) ==
    Cardinality({f \in DOMAIN c.faces :
        Cardinality({k \in 1..2 : c.faces[f].patches[k].kind = "Cell"}) = nc})

\* the computational mesh c has 2 cells, 4 vertices and 5 faces, 4 of them
\* between a cell and the boundary and 1 between the two cells
two_triangles(c) ==
    /\ c.st = "Ok"
    /\ len(c.cells) = 2
    /\ len(c.vertices) = 4
    /\ len(c.faces) = 5
    /\ faces_with_cells(c, 1) = 4
    /\ faces_with_cells(c, 2) = 1
    /\ \A f \in DOMAIN c.faces :
          \A k \in 1..2 : c.faces[f].patches[k].kind \in {"Cell", "Boundary"}
    /\ \E f \in DOMAIN c.faces :
          {c.faces[f].patches[1], c.faces[f].patches[2]}
             = {CellPatch(0), CellPatch(1)}

\* C10: on the unit square, trimming((1, 3), p) with p the interior cell
\* leaves exactly two Cell parents, each with a cycle of three half-edges;
\* the mesh validates, and the computational mesh built from it has 2
\* cells, 4 vertices and 5 faces, 4 with one Cell and one Boundary patch and
\* 1 with two Cell patches.
C10_SquareDiagonal ==
    [][/\ (mesh = simple_mesh /\ last'.op = "trimming" /\ last'.u = 1
              /\ last'.v = 3 /\ last'.p = 1) =>
            /\ mesh.parents[1].kind = "Cell"
            /\ last'.res = "Ok"
            /\ {k \in DOMAIN mesh'.parents : mesh'.parents[k].kind = "Cell"}
                  = {1, 2}
            /\ parent_cycle_len(mesh', 1) = 3
            /\ parent_cycle_len(mesh', 2) = 3
            /\ validate_topology(mesh').res = "Ok"
            /\ two_triangles(new_from_he(validate_topology(mesh').m))
       /\ (last'.op = "new_from_he"
              /\ safe.m = trimming(simple_mesh, <<1, 3>>, 1).m) =>
            two_triangles(comp')]_vars

\* the computational mesh built from the validated square cut from vertex
\* 1 to vertex 3
C10_Witness ==
    /\ last.op = "new_from_he"
    /\ safe.st = "Ok"
    /\ safe.m = trimming(simple_mesh, <<1, 3>>, 1).m
    /\ two_triangles(comp)

\* what C11 states of a successful notching(h, pos) taking store m to store
\* n and returning ret
notching_adds_triangle(m, n, h, pos, ret) ==
    LET ends == vertices_from_he(m, h)
        nv == vertices_len(m)
        c == he_from_parent(n, ret)
    IN /\ vertices_len(n) = vertices_len(m) + 1
       /\ n.vertices[nv] = pos
       /\ \A k \in DOMAIN m.vertices : n.vertices[k] = m.vertices[k]
       /\ he_len(n) = he_len(m) + 4
       /\ n.parents = Push(m.parents, [kind |-> "Cell"])
       /\ ret = parents_len(m)
       /\ c.st = "Ok"
       /\ len(c.hes) = 3
       /\ {n.he_to_vertex[c.hes[k]] : k \in DOMAIN c.hes} = {ends[1], ends[2], nv}
       /\ check_mesh(n) = "Ok"

\* C11: on a mesh that passes check_mesh, a successful notching(h, q) adds
\* one vertex placed at q, four half-edges and one Cell parent, returns the
\* index of that parent, whose cycle has three half-edges originating at the
\* two endpoints of h and at the new vertex, and the mesh passes check_mesh.
C11_NotchingAddsTriangle ==
    [][(check_mesh(mesh) = "Ok" /\ last'.op = "notching" /\ last'.res = "Ok")
       => notching_adds_triangle(mesh, mesh', last'.he, last'.pos, last'.ret)]_vars

\* the boundary of one edge, a loop at vertex 0, after notching(0, q): the
\* call returned Ok and the mesh does not pass check_mesh
C11_Witness ==
    /\ last.op = "notching"
    /\ last.res = "Ok"
    /\ last.he = 0
    /\ built_he = 2
    /\ he_len(mesh) = 6
    /\ check_mesh(mesh) # "Ok"

\* the call notching(0, (0.5, 0.5)) is made on the unit square
square_notch_step ==
    /\ mesh = simple_mesh
    /\ last'.op = "notching"
    /\ last'.he = 0
    /\ last'.pos = <<PosScale \div 2, PosScale \div 2>>

\* the Cell parents of store m
cell_parents(m) == {k \in DOMAIN m.parents : m.parents[k].kind = "Cell"}

\* C12 as stated: on the unit square, notching(0, (0.5, 0.5)) gives one
\* more vertex and one more cell, the cycle of the Boundary parent grows
\* from 4 to 5 half-edges and a new cell cycle of 3 half-edges exists.
C12_BoundaryCycleGrows ==
    [][square_notch_step =>
         /\ last'.res = "Ok"
         /\ vertices_len(mesh') = vertices_len(mesh) + 1
         /\ Cardinality(cell_parents(mesh')) = Cardinality(cell_parents(mesh)) + 1
         /\ mesh.parents[0].kind = "Boundary"
         /\ parent_cycle_len(mesh, 0) = 4
         /\ parent_cycle_len(mesh', 0) = 5
         /\ parent_cycle_len(mesh', last'.ret) = 3]_vars

\* C12 amended: on the unit square, notching(0, (0.5, 0.5)) gives one more
\* vertex and one more cell; the new cell is cut on the side of the twin of
\* half-edge 0, so the cycle of the Boundary parent keeps 4 half-edges, the
\* cycle of the interior cell grows from 4 to 5 and the new cell has a
\* cycle of 3.
C12_CellCycleGrows ==
    [][square_notch_step =>
         /\ last'.res = "Ok"
         /\ vertices_len(mesh') = vertices_len(mesh) + 1
         /\ cell_parents(mesh) = {1}
         /\ cell_parents(mesh') = {1, last'.ret}
         /\ last'.ret = 2
         /\ mesh.parents[0].kind = "Boundary"
         /\ mesh'.parents[0].kind = "Boundary"
         /\ parent_cycle_len(mesh, 0) = 4
         /\ parent_cycle_len(mesh', 0) = 4
         /\ parent_cycle_len(mesh, 1) = 4
         /\ parent_cycle_len(mesh', 1) = 5
         /\ parent_cycle_len(mesh', 2) = 3]_vars

\* the unit square after notching(0, (0.5, 0.5))
C12_Witness ==
    /\ last.op = "notching"
    /\ last.res = "Ok"
    /\ last.he = 0
    /\ mesh = notching(simple_mesh, 0, <<PosScale \div 2, PosScale \div 2>>).m
    /\ vertices_len(mesh) = 5
    /\ parent_cycle_len(mesh, 0) = 4
    /\ parent_cycle_len(mesh, 1) = 5
    /\ parent_cycle_len(mesh, 2) = 3

\* half-edge he lies on the cycle he_from_parent(parent) of store m
on_parent_cycle(m, parent, he) ==
    \E k \in DOMAIN he_from_parent(m, parent).hes :
        he_from_parent(m, parent).hes[k] = he

\* C13: after a successful notching of a half-edge h of a Cell whose twin
\* lies on a Boundary parent, on a mesh that passes check_mesh,
\* vertices_from_parent of that Boundary parent has as many vertices as
\* before (4 for half-edge 0 of the unit square): the twin of h and the new
\* half of the twin have left its cycle, the new chord has joined it.
C13_BoundaryCycleKept ==
    [][(check_mesh(mesh) = "Ok" /\ last'.op = "notching" /\ last'.res = "Ok"
            /\ mesh.parents[mesh.he_to_parent[last'.he]].kind = "Cell"
            /\ mesh.parents[mesh.he_to_parent[mesh.he_to_twin[last'.he]]].kind
                  = "Boundary") =>
         LET h == last'.he
             tw == mesh.he_to_twin[h]
             bp == mesh.he_to_parent[tw]
         IN /\ he_from_parent(mesh', bp).st = "Ok"
            /\ len(vertices_from_parent(mesh', bp))
                  = len(vertices_from_parent(mesh, bp))
            /\ on_parent_cycle(mesh, bp, tw)
            /\ ~ on_parent_cycle(mesh', bp, tw)
            /\ ~ on_parent_cycle(mesh', bp, he_len(mesh) + 1)
            /\ on_parent_cycle(mesh', bp, he_len(mesh) + 2)
            /\ vertices_from_he(mesh', he_len(mesh) + 2)
                  = <<vertices_from_he(mesh, h)[2], vertices_from_he(mesh, h)[1]>>
            /\ (mesh = simple_mesh /\ h = 0) =>
                  len(vertices_from_parent(mesh', bp)) = 4]_vars

\* the unit square after notching(0, q): the Boundary parent has 4 vertices
C13_Witness ==
    /\ last.op = "notching"
    /\ last.res = "Ok"
    /\ last.he = 0
    /\ built_he = 8
    /\ he_len(mesh) = 12
    /\ mesh.parents[0].kind = "Boundary"
    /\ len(vertices_from_parent(mesh, 0)) = 4
    /\ len(vertices_from_parent(simple_mesh, 0)) = 4

\* the first direction of invariant 4: the walk from parent_to_first_he[p]
\* ends and meets only half-edges whose parent is p
walk_has_parent(m, p) ==
    /\ he_from_parent(m, p).st = "Ok"
    /\ \A k \in DOMAIN he_from_parent(m, p).hes :
          m.he_to_parent[he_from_parent(m, p).hes[k]] = p

\* the converse: every half-edge whose parent is p is met by that walk
walk_covers_parent(m, p) ==
    \A h \in DOMAIN m.he_to_parent :
        m.he_to_parent[h] = p => on_parent_cycle(m, p, h)

\* C14: for every half-edge store, if check_mesh returns Ok then for every
\* parent p every half-edge walked from parent_to_first_he[p] has parent p
\* and every half-edge whose parent is p is reached by that walk
C14_CheckMeshBothDirections ==
    check_mesh(mesh) = "Ok" =>
        \A p \in DOMAIN mesh.parents :
            walk_has_parent(mesh, p) /\ walk_covers_parent(mesh, p)

\* the direction check_mesh does verify
C14_CheckMeshForward ==
    check_mesh(mesh) = "Ok" =>
        \A p \in DOMAIN mesh.parents : walk_has_parent(mesh, p)

\* a validated store of two self-loops that both carry parent 0, the walk
\* of parent 0 meeting only the first
C14_Witness ==
    /\ last.op = "validate_topology" /\ last.res = "Ok"
    /\ he_len(safe.m) = 2 /\ parents_len(safe.m) = 1
    /\ safe.m.he_to_next_he = Identity(2)
    /\ safe.m.he_to_parent = [i \in 0..1 |-> 0]
    /\ he_from_parent(safe.m, 0).hes = Vec(<<0>>)

\* the half-edge k steps of next after h; NoRet once next leaves the store
RECURSIVE next_iter(_, _, _)
next_iter(m, h, k) ==
    IF k = 0 THEN h
    ELSE IF ~ InRange(h, m.he_to_next_he) THEN NoRet
    ELSE next_iter(m, m.he_to_next_he[h], k - 1)

returns_within(m, h, n) == \E k \in 1..n : next_iter(m, h, k) = h

\* C15: for every half-edge store, if check_mesh returns Ok then following
\* next from any half-edge returns to that half-edge within |HE| steps and
\* he_from_parent(p) terminates for every parent p; a store with a
\* next-chain that never returns to its start is not accepted
C15_AcceptedChainsReturn ==
    check_mesh(mesh) = "Ok" =>
        /\ \A h \in DOMAIN mesh.he_to_next_he : returns_within(mesh, h, he_len(mesh))
        /\ \A p \in DOMAIN mesh.parents :
              /\ he_from_parent(mesh, p).st = "Ok"
              /\ len(he_from_parent(mesh, p).hes) <= he_len(mesh)

\* a validated store whose only cycle takes all |HE| steps
C15_Witness ==
    /\ last.op = "validate_topology" /\ last.res = "Ok"
    /\ he_len(safe.m) >= 2
    /\ \A h \in DOMAIN safe.m.he_to_next_he :
          /\ returns_within(safe.m, h, he_len(safe.m))
          /\ ~ returns_within(safe.m, h, he_len(safe.m) - 1)
    /\ len(he_from_parent(safe.m, 0).hes) = he_len(safe.m)

\* a store with a next-chain that never returns, turned down for its
\* next/prev links
C15_WitnessRejected ==
    /\ last.op = "validate_topology" /\ last.res = "NextPrevNotCorrect"
    /\ \E h \in DOMAIN mesh.he_to_next_he : ~ returns_within(mesh, h, he_len(mesh) + 1)

\* the eight violations check_mesh looks for, each stated on its own
vertex_range_broken(m) ==
    \E he \in DOMAIN m.he_to_vertex : ~ InRange(m.he_to_vertex[he], m.vertices)
twin_range_broken(m) ==
    \E he \in DOMAIN m.he_to_twin : ~ InRange(m.he_to_twin[he], m.he_to_vertex)
twin_symmetry_broken(m) ==
    \E he \in DOMAIN m.he_to_twin :
        /\ InRange(m.he_to_twin[he], m.he_to_twin)
        /\ m.he_to_twin[m.he_to_twin[he]] # he
next_range_broken(m) ==
    \E he \in DOMAIN m.he_to_next_he : ~ InRange(m.he_to_next_he[he], m.he_to_vertex)
prev_range_broken(m) ==
    \E he \in DOMAIN m.he_to_prev_he : ~ InRange(m.he_to_prev_he[he], m.he_to_vertex)
next_prev_broken(m) ==
    \E he \in DOMAIN m.he_to_next_he :
        /\ InRange(m.he_to_next_he[he], m.he_to_prev_he)
        /\ m.he_to_prev_he[m.he_to_next_he[he]] # he
parent_range_broken(m) ==
    \E he \in DOMAIN m.he_to_parent : ~ InRange(m.he_to_parent[he], m.parents)
parent_cycle_broken(m) ==
    \E p \in DOMAIN m.parents :
        /\ he_from_parent(m, p).st = "Ok"
        /\ \E k \in DOMAIN he_from_parent(m, p).hes :
              InRange(he_from_parent(m, p).hes[k], m.he_to_parent)
              /\ m.he_to_parent[he_from_parent(m, p).hes[k]] # p

\* the error of the first violation in the order of the checks
first_violation(m) ==
    IF vertex_range_broken(m) THEN "VertexIndexOutOfBound"
    ELSE IF twin_range_broken(m) THEN "HalfEdgeIndexOutOfBound"
    ELSE IF twin_symmetry_broken(m) THEN "TwinNotCorrect"
    ELSE IF next_range_broken(m) THEN "HalfEdgeIndexOutOfBound"
    ELSE IF prev_range_broken(m) THEN "HalfEdgeIndexOutOfBound"
    ELSE IF next_prev_broken(m) THEN "NextPrevNotCorrect"
    ELSE IF parent_range_broken(m) THEN "ParentIndexOutOfBound"
    ELSE IF parent_cycle_broken(m) THEN "ParentNotCorrect"
    ELSE "Ok"

\* C16: validate_topology returns Ok exactly when check_mesh returns Ok on
\* the wrapped store, and the Safe2DMesh then holds that very store;
\* otherwise it returns the error check_mesh returns, which is the error of
\* the first violation in the order vertex range, twin range, twin
\* symmetry, next range, prev range, next/prev symmetry, parent range,
\* parent cycle
C16_ValidateIsCheckMesh ==
    [][last'.op = "validate_topology" =>
          /\ last'.res = check_mesh(mesh)
          /\ (check_mesh(mesh) = "Ok") <=> (safe' # NoMesh)
          /\ safe' # NoMesh => safe'.m = mesh
          /\ mesh' = mesh
          /\ check_mesh(mesh) # "Panic" => last'.res = first_violation(mesh)]_vars

\* a store with a twin that is not symmetric, a next index out of range
\* and a parent index out of range: the twin error is the one returned
C16_Witness ==
    /\ last.op = "validate_topology" /\ last.res = "TwinNotCorrect"
    /\ safe = NoMesh
    /\ ~ twin_range_broken(mesh)
    /\ next_range_broken(mesh)
    /\ parent_range_broken(mesh)

\* an accepted store, kept as it is in the Safe2DMesh
C16_WitnessOk ==
    /\ last.op = "validate_topology" /\ last.res = "Ok"
    /\ safe # NoMesh /\ safe.m = mesh
    /\ first_violation(mesh) = "Ok"

\* the store new_from_boundary builds from the parents and the n edges:
\* 2n half-edges, one appended Cell parent, half-edge 2i from edge i's
\* first vertex with the Cell as parent, 2i + 1 from its second vertex with
\* the parent the edge names, the two being twins, the even half-edges in
\* one next-cycle in edge order, the odd ones in one in reverse edge order
boundary_structure(m, edges, parents) ==
    LET n == len(edges)
        cell == len(parents)
    IN /\ he_len(m) = 2 * n
       /\ len(m.he_to_twin) = 2 * n /\ len(m.he_to_next_he) = 2 * n
       /\ len(m.he_to_prev_he) = 2 * n /\ len(m.he_to_parent) = 2 * n
       /\ m.parents = Push(parents, [kind |-> "Cell"])
       /\ \A i \in 0..(n - 1) :
             /\ m.he_to_vertex[2 * i] = edges[i][1]
             /\ m.he_to_parent[2 * i] = cell
             /\ m.he_to_vertex[2 * i + 1] = edges[i][2]
             /\ m.he_to_parent[2 * i + 1] = edges[i][3]
             /\ m.he_to_twin[2 * i] = 2 * i + 1
             /\ m.he_to_twin[2 * i + 1] = 2 * i
             /\ m.he_to_next_he[2 * i] = 2 * ((i + 1) % n)
             /\ m.he_to_prev_he[2 * i] = 2 * ((i + n - 1) % n)
             /\ m.he_to_next_he[2 * i + 1] = 2 * ((i + n - 1) % n) + 1
             /\ m.he_to_prev_he[2 * i + 1] = 2 * ((i + 1) % n) + 1
       /\ cycle_len(m, 0) = n
       /\ cycle_len(m, 1) = n

\* C17: for n >= 1 boundary edges new_from_boundary builds exactly 2n
\* half-edges and appends one Cell parent; for edge i = (a, b, p) half-edge
\* 2i originates at a with the appended Cell as parent, half-edge 2i + 1
\* originates at b with parent p, and they are twins; the even half-edges
\* form one next-cycle of length n in edge order and the odd ones one of
\* length n in reverse edge order; the unit square gives 8 half-edges, 2
\* parents and two cycles of length 4
C17_BoundaryStructure ==
    last.op = "new_from_boundary" =>
        /\ boundary_structure(mesh, last.edges, last.parents)
        /\ mesh = simple_mesh =>
              /\ he_len(mesh) = 8 /\ parents_len(mesh) = 2
              /\ cycle_len(mesh, 0) = 4 /\ cycle_len(mesh, 1) = 4

\* the unit square just built, its edges naming the one Boundary parent
C17_Witness ==
    /\ last.op = "new_from_boundary"
    /\ mesh = simple_mesh
    /\ len(last.edges) = 4 /\ len(last.parents) = 1
    /\ he_from_parent(mesh, 1).hes = Vec(<<0, 2, 4, 6>>)
    /\ he_from_parent(mesh, 0).hes = Vec(<<1, 7, 5, 3>>)

\* the edges are closed and in cyclic order: each edge ends where the next
\* one starts, the last one where the first one starts
closed_boundary(edges) ==
    \A i \in DOMAIN edges : edges[i][2] = edges[(i + 1) % len(edges)][1]

\* every edge names one of the supplied Boundary parents and every supplied
\* parent is named by at least one edge
parents_all_named(edges, parents) ==
    /\ \A k \in DOMAIN parents : parents[k].kind = "Boundary"
    /\ \A i \in DOMAIN edges : InRange(edges[i][3], parents)
    /\ \A k \in DOMAIN parents : \E i \in DOMAIN edges : edges[i][3] = k

\* C18 as stated: for every closed, cyclically ordered boundary of n >= 1
\* edges whose edges name the supplied Boundary parents, each parent named
\* at least once, one parent or several, the mesh new_from_boundary returns
\* passes check_mesh and validate_topology succeeds
C18_BoundaryPassesCheckMesh ==
    (/\ last.op = "new_from_boundary"
     /\ closed_boundary(last.edges)
     /\ parents_all_named(last.edges, last.parents))
    => /\ check_mesh(mesh) = "Ok"
       /\ validate_topology(mesh).res = "Ok"

\* what new_from_boundary does on such a boundary: with one supplied
\* Boundary parent the mesh passes check_mesh and
\* validate_topology succeeds; with two or more supplied parents, each
\* named by an edge, check_mesh returns ParentNotCorrect
C18_OneParentPassesCheckMesh ==
    (/\ last.op = "new_from_boundary"
     /\ closed_boundary(last.edges)
     /\ parents_all_named(last.edges, last.parents))
    => IF len(last.parents) = 1
       THEN /\ check_mesh(mesh) = "Ok"
            /\ validate_topology(mesh).res = "Ok"
            /\ validate_topology(mesh).m = mesh
       ELSE /\ check_mesh(mesh) = "ParentNotCorrect"
            /\ validate_topology(mesh).res = "ParentNotCorrect"

\* the closed boundary of three edges under one parent, just built
C18_Witness ==
    /\ last.op = "new_from_boundary"
    /\ len(last.edges) = 3 /\ len(last.parents) = 1
    /\ closed_boundary(last.edges)
    /\ parents_all_named(last.edges, last.parents)
    /\ check_mesh(mesh) = "Ok"

\* a closed boundary of two edges under two parents, each named once
C18_WitnessTwoParents ==
    /\ last.op = "new_from_boundary"
    /\ len(last.edges) = 2 /\ len(last.parents) = 2
    /\ closed_boundary(last.edges)
    /\ parents_all_named(last.edges, last.parents)
    /\ check_mesh(mesh) = "ParentNotCorrect"

\* the CellIndex of Cell parent p: the number of Cell parents before it
cell_index_of(m, p) ==
    Cardinality({k \in DOMAIN m.parents : k < p /\ m.parents[k].kind = "Cell"})

\* the patch on the side of half-edge he, from its parent
patch_from_parent(m, he) ==
    IF m.parents[m.he_to_parent[he]].kind = "Boundary"
    THEN BoundaryPatch(m.parents[m.he_to_parent[he]].patch)
    ELSE CellPatch(cell_index_of(m, m.he_to_parent[he]))

\* the faces and he_to_face of c are those of the twin pairs of m
faces_of_twin_pairs(m, c) ==
    /\ 2 * len(c.faces) = he_len(m)
    /\ len(c.he_to_face) = he_len(m)
    /\ \A he \in DOMAIN m.he_to_twin :
          /\ InRange(c.he_to_face[he], c.faces)
          /\ c.he_to_face[he] = c.he_to_face[m.he_to_twin[he]]
          /\ he < m.he_to_twin[he] =>
                /\ c.faces[c.he_to_face[he]].vertices
                      = <<m.he_to_vertex[he], m.he_to_vertex[m.he_to_twin[he]]>>
                /\ c.faces[c.he_to_face[he]].patches
                      = <<patch_from_parent(m, he),
                          patch_from_parent(m, m.he_to_twin[he])>>
    /\ \A a, b \in DOMAIN m.he_to_twin :
          c.he_to_face[a] = c.he_to_face[b] => (a = b \/ m.he_to_twin[a] = b)
    /\ \A f \in DOMAIN c.faces : \E he \in DOMAIN m.he_to_twin : c.he_to_face[he] = f

\* C19: the builder creates exactly |HE|/2 faces, one per twin pair: for
\* he < twin(he) one face with vertices [origin(he), origin(twin(he))], its
\* first patch from parent(he) and its second from parent(twin(he));
\* he_to_face maps he and twin(he) to the same face, and two half-edges to
\* the same face only if they are twins
C19_FacesOfTwinPairs ==
    (last.op = "new_from_he" /\ comp.st = "Ok") => faces_of_twin_pairs(safe.m, comp)

\* a mesh of two cells converted: the square notched at half-edge 0
C19_Witness ==
    /\ last.op = "new_from_he" /\ comp.st = "Ok"
    /\ he_len(safe.m) = 12
    /\ len(comp.faces) = 6
    /\ len(comp.cells) = 2
    /\ \E f \in DOMAIN comp.faces :
          comp.faces[f].patches[1].kind = "Cell" /\ comp.faces[f].patches[2].kind = "Cell"
    /\ \E f \in DOMAIN comp.faces :
          comp.faces[f].patches[1].kind = "Boundary"

\* the cells of c are those of the Cell parents of m, in parent order
cells_of_cell_parents(m, c) ==
    /\ len(c.cells) = Cardinality(cell_parents(m))
    /\ \A p \in cell_parents(m) :
          LET k == cell_index_of(m, p)
              hes == he_from_parent(m, p).hes
          IN /\ InRange(k, c.cells)
             /\ c.cells[k].faces = [i \in DOMAIN hes |-> c.he_to_face[hes[i]]]
             /\ {c.cells[k].vertices[j] : j \in DOMAIN c.cells[k].vertices}
                   = {m.he_to_vertex[hes[i]] : i \in DOMAIN hes}
             /\ \A i, j \in DOMAIN c.cells[k].vertices :
                   c.cells[k].vertices[i] = c.cells[k].vertices[j] => i = j
    /\ \A p, q \in cell_parents(m) : p < q => cell_index_of(m, p) < cell_index_of(m, q)

\* C20: the builder creates exactly one cell per Cell parent and none for a
\* Boundary parent; the k-th Cell parent in parent order becomes
\* CellIndex(k); the cell's face list is he_from_parent(p) mapped through
\* he_to_face in cycle order; its vertex list contains every origin vertex
\* of the cycle exactly once
C20_CellsOfCellParents ==
    (last.op = "new_from_he" /\ comp.st = "Ok") => cells_of_cell_parents(safe.m, comp)

\* a converted mesh of a Boundary parent followed by two Cell parents, one
\* cycle of three half-edges and one of more
C20_Witness ==
    /\ last.op = "new_from_he" /\ comp.st = "Ok"
    /\ len(comp.cells) = 2
    /\ parents_len(safe.m) = 3
    /\ safe.m.parents[0].kind = "Boundary"
    /\ \E k \in DOMAIN comp.cells : len(comp.cells[k].vertices) = 3
    /\ \E k \in DOMAIN comp.cells : len(comp.cells[k].vertices) > 3

\* C21: the computational-mesh builder ends in a panic, returning no mesh,
\* whenever the parent list holds a Parent::None or some half-edge is its
\* own twin
C21_BuilderPanics ==
    (/\ last.op = "new_from_he"
     /\ \/ \E p \in DOMAIN safe.m.parents : safe.m.parents[p].kind = "None"
        \/ \E he \in DOMAIN safe.m.he_to_twin : safe.m.he_to_twin[he] = he)
    => (comp.st = "Panic" /\ last.res = "Panic")

\* the builder has run on a validated store whose one parent is None, its
\* half-edges properly paired
C21_Witness ==
    /\ last.op = "new_from_he" /\ last.res = "Panic"
    /\ safe.m.parents = OneNone
    /\ safe.m.he_to_twin = Swap01(StoreHalfEdges)

\* the builder has run on a validated store of self-twinned half-edges
\* under a Boundary parent
C21_WitnessSelfTwin ==
    /\ last.op = "new_from_he" /\ last.res = "Panic"
    /\ safe.m.parents = OneBoundary
    /\ safe.m.he_to_twin = Identity(StoreHalfEdges)

\* the builder returns a mesh for the same store with its half-edges paired
C21_WitnessBuilt ==
    /\ last.op = "new_from_he" /\ last.res = "Ok" /\ comp.st = "Ok"
    /\ safe.m.parents = OneBoundary
    /\ safe.m.he_to_twin = Swap01(StoreHalfEdges)

\* the Cell parent of m that becomes cell k
cell_parent(m, k) ==
    CHOOSE p \in cell_parents(m) : cell_index_of(m, p) = k

\* the positions of the origins of the cycle of parent p, in cycle order
cycle_points(m, p) ==
    [i \in DOMAIN he_from_parent(m, p).hes |->
        m.vertices[m.he_to_vertex[he_from_parent(m, p).hes[i]]]]

\* twice the signed area of the polygon: positive when the points run
\* counter-clockwise
RECURSIVE shoelace(_, _)
shoelace(points, i) ==
    IF i >= len(points) THEN 0
    ELSE cross(points[i], points[(i + 1) % len(points)]) + shoelace(points, i + 1)

\* the points turn left or go straight at every corner and run
\* counter-clockwise around a positive area: a convex polygon
convex_ccw(points) ==
    LET n == len(points)
    IN /\ n >= 3
       /\ shoelace(points, 0) > 0
       /\ \A i \in 0..(n - 1) :
             cross(minus(points[(i + 1) % n], points[i]),
                   minus(points[(i + 2) % n], points[(i + 1) % n])) >= 0

\* every cell cycle of m runs counter-clockwise
cycles_ccw(m) ==
    \A p \in cell_parents(m) : shoelace(cycle_points(m, p), 0) > 0

\* the sign of the dot product of v with (midpoint(f) - centroid(cell)):
\* 1, 0, -1, or "nan" when the centroid is NaN
side_of(c, cell, f, v) ==
    LET g == Cell(c, cell).centroid
        mp == middle_point(c, f)
        d == dot(v, <<mp.x * g.den - mp.den * g.x, mp.y * g.den - mp.den * g.y>>)
    IN IF g.nan THEN "nan" ELSE IF d > 0 THEN "out" ELSE IF d < 0 THEN "in" ELSE "along"

\* C22: in a computational mesh built from a validated mesh whose cell
\* cycles run counter-clockwise, every vector of normals_from_cell(c), and
\* of Face::normal_from_cell(c), for a face f of a convex cell c points
\* outward: its dot product with (midpoint(f) - centroid(c)) is strictly
\* positive
C22_NormalsPointOutward ==
    (last.op = "new_from_he" /\ comp.st = "Ok" /\ cycles_ccw(safe.m)) =>
        \A k \in DOMAIN comp.cells :
            convex_ccw(cycle_points(safe.m, cell_parent(safe.m, k))) =>
                \A i \in DOMAIN comp.cells[k].faces :
                    /\ side_of(comp, k, comp.cells[k].faces[i],
                               normals_from_cell(comp, k)[i]) = "out"
                    /\ normal_from_cell(comp, comp.cells[k].faces[i], k).some
                    /\ side_of(comp, k, comp.cells[k].faces[i],
                               normal_from_cell(comp, comp.cells[k].faces[i], k).v) = "out"

\* what the code gives on such a mesh: on a triangle every such vector
\* points into the cell, and on a cell of four or more vertices the
\* centroid is NaN and the dot product with it
C22_NormalsPointInward ==
    (last.op = "new_from_he" /\ comp.st = "Ok" /\ cycles_ccw(safe.m)) =>
        \A k \in DOMAIN comp.cells :
            convex_ccw(cycle_points(safe.m, cell_parent(safe.m, k))) =>
                \A i \in DOMAIN comp.cells[k].faces :
                    /\ normal_from_cell(comp, comp.cells[k].faces[i], k).v
                          = normals_from_cell(comp, k)[i]
                    /\ side_of(comp, k, comp.cells[k].faces[i],
                               normals_from_cell(comp, k)[i])
                          = IF len(comp.cells[k].vertices) = 3 THEN "in" ELSE "nan"

\* the square cut along its diagonal and converted: two counter-clockwise
\* triangles, every normal taken from either cell pointing into it
C22_Witness ==
    /\ last.op = "new_from_he" /\ comp.st = "Ok"
    /\ cycles_ccw(safe.m)
    /\ len(comp.cells) = 2
    /\ \A k \in DOMAIN comp.cells :
          /\ len(comp.cells[k].vertices) = 3
          /\ convex_ccw(cycle_points(safe.m, cell_parent(safe.m, k)))
          /\ \A i \in DOMAIN comp.cells[k].faces :
                side_of(comp, k, comp.cells[k].faces[i],
                        normals_from_cell(comp, k)[i]) = "in"

\* the cells on the other side of the faces of cell k that have a cell on
\* the other side, in face order
RECURSIVE cells_across(_, _, _, _)
cells_across(c, k, i, acc) ==
    IF i >= len(c.cells[k].faces) THEN acc
    ELSE LET face == c.faces[c.cells[k].faces[i]]
             other == IF face.patches[1] = CellPatch(k)
                      THEN face.patches[2] ELSE face.patches[1]
         IN cells_across(c, k, i + 1,
                IF other.kind = "Cell" THEN Push(acc, other.id) ELSE acc)

in_vec(x, v) == \E i \in DOMAIN v : v[i] = x

\* C23: neighboring_cells_id(c) returns, in face order, exactly the cell on
\* the other side of each face of c whose other side is a cell, and nothing
\* for a face whose other side is a boundary patch; so d is in
\* neighboring_cells_id(c) iff c is in neighboring_cells_id(d), and the
\* result never contains a boundary
C23_NeighboringCells ==
    (last.op = "new_from_he" /\ comp.st = "Ok") =>
        /\ \A k \in DOMAIN comp.cells :
              /\ neighboring_cells_id(comp, k) = cells_across(comp, k, 0, EmptyVec)
              /\ \A i \in DOMAIN neighboring_cells_id(comp, k) :
                    InRange(neighboring_cells_id(comp, k)[i], comp.cells)
        /\ \A k, d \in DOMAIN comp.cells :
              in_vec(d, neighboring_cells_id(comp, k))
                  <=> in_vec(k, neighboring_cells_id(comp, d))

\* the same for the meshes all of whose cells are triangles
C23_NeighboringTriangles ==
    (/\ last.op = "new_from_he" /\ comp.st = "Ok"
     /\ \A k \in DOMAIN comp.cells : len(comp.cells[k].vertices) = 3) =>
        /\ \A k \in DOMAIN comp.cells :
              neighboring_cells_id(comp, k) = cells_across(comp, k, 0, EmptyVec)
        /\ \A k, d \in DOMAIN comp.cells :
              in_vec(d, neighboring_cells_id(comp, k))
                  <=> in_vec(k, neighboring_cells_id(comp, d))

\* the unit square converted: its one cell of four vertices, every face of
\* it on the boundary, is returned as its own neighbour four times
C23_Witness ==
    /\ last.op = "new_from_he" /\ comp.st = "Ok"
    /\ safe.m = simple_mesh
    /\ len(comp.cells) = 1
    /\ cells_across(comp, 0, 0, EmptyVec) = EmptyVec
    /\ neighboring_cells_id(comp, 0) = Vec(<<0, 0, 0, 0>>)

\* the square cut along its diagonal: each triangle has the other as its
\* one neighbour
C23_WitnessTriangles ==
    /\ last.op = "new_from_he" /\ comp.st = "Ok"
    /\ len(comp.cells) = 2
    /\ neighboring_cells_id(comp, 0) = Vec(<<1>>)
    /\ neighboring_cells_id(comp, 1) = Vec(<<0>>)

\* the positions of the vertices of the unit square, in order
unit_square_points ==
    Vec(<< <<0, 0>>, <<PosScale, 0>>, <<PosScale, PosScale>>, <<0, PosScale>> >>)

\* C24: for n > 3 points in polygon order centroid_and_area returns a
\* strictly positive area for a non-degenerate polygon (1 for the four
\* corners of the unit square), and every cell of a computational mesh,
\* cells of four or more vertices included, has volume > 0
C24_AreaPositive ==
    (last.op = "new_from_he" /\ comp.st = "Ok") =>
        \A k \in DOMAIN comp.cells :
            /\ (len(cell_points(comp, k)) > 3
                  /\ shoelace(cell_points(comp, k), 0) # 0) =>
                  centroid_and_area(cell_points(comp, k)).area.num > 0
            /\ cell_points(comp, k) = unit_square_points =>
                  centroid_and_area(cell_points(comp, k)).area.num
                     = PosScale * PosScale * centroid_and_area(cell_points(comp, k)).area.den
            /\ shoelace(cycle_points(safe.m, cell_parent(safe.m, k)), 0) # 0 =>
                  Cell(comp, k).volume.num > 0

\* what the code gives: the area of a triangle is half the absolute cross
\* product, the area of four or more points is 0 and their centroid NaN;
\* fewer than three points are not made into a cell
C24_AreaOfTrianglesOnly ==
    (last.op = "new_from_he" /\ comp.st = "Ok") =>
        \A k \in DOMAIN comp.cells :
            /\ len(cell_points(comp, k)) >= 3
            /\ len(cell_points(comp, k)) = 3 =>
                  /\ 2 * Cell(comp, k).volume.num
                        = Abs(shoelace(cell_points(comp, k), 0)) * Cell(comp, k).volume.den
                  /\ ~ Cell(comp, k).centroid.nan
            /\ len(cell_points(comp, k)) > 3 =>
                  /\ Cell(comp, k).volume.num = 0
                  /\ Cell(comp, k).centroid.nan

\* the unit square converted: its cell has the four corners in polygon
\* order, volume 0 and a NaN centroid
C24_Witness ==
    /\ last.op = "new_from_he" /\ comp.st = "Ok"
    /\ len(comp.cells) = 1
    /\ cell_points(comp, 0) = unit_square_points
    /\ Cell(comp, 0).volume.num = 0
    /\ Cell(comp, 0).centroid.nan

\* the builder has panicked on a cell of fewer than three vertices
C24_WitnessPanic ==
    /\ last.op = "new_from_he" /\ comp.st = "Panic"
    /\ \E p \in cell_parents(safe.m) :
          centroid_and_area(cycle_points(safe.m, p)).st = "Panic"

(***************************************************************************)
(* Modifiable2DMesh::swap_edge, called by combined_test; its body is not   *)
(* part of the sources at hand and is taken from its description: the edge *)
(* shared by two adjacent triangles is replaced by the edge joining their  *)
(* two opposite vertices                                                   *)
(***************************************************************************)
\* the half-edges of the cycle of parent a whose twin belongs to parent b
shared_edges(m, a, b) ==
    LET hes == he_from_parent(m, a).hes
    IN {hes[i] : i \in {j \in DOMAIN hes : m.he_to_parent[m.he_to_twin[hes[j]]] = b}}

\* the corners of the two triangles around the shared half-edge h: h runs
\* from va to vb, vc is the opposite vertex on the side of h and vd the
\* opposite vertex on the side of its twin
swap_corners(m, h) ==
    LET t == m.he_to_twin[h]
    IN [va |-> m.he_to_vertex[h], vb |-> m.he_to_vertex[t],
        vc |-> m.he_to_vertex[m.he_to_prev_he[h]],
        vd |-> m.he_to_vertex[m.he_to_prev_he[t]]]

\* one of the two triangles the swap would make has no area
swap_aligned(m, h) ==
    LET c == swap_corners(m, h)
        cd == minus(m.vertices[c.vc], m.vertices[c.vd])
    IN \/ cross(cd, minus(m.vertices[c.va], m.vertices[c.vd])) = 0
       \/ cross(cd, minus(m.vertices[c.vb], m.vertices[c.vd])) = 0

\* twin, next, prev and parent rewritten around h, which now runs from vd
\* to vc; first_he of a cell that started at a half-edge it has lost is h
swap_rewrite(m, a, b, h) ==
    LET t == m.he_to_twin[h]
        n1 == m.he_to_next_he[h]
        n2 == m.he_to_prev_he[h]
        m1 == m.he_to_next_he[t]
        m2 == m.he_to_prev_he[t]
        c == swap_corners(m, h)
    IN [m EXCEPT
          !.he_to_vertex = [@ EXCEPT ![h] = c.vd, ![t] = c.vc],
          !.he_to_next_he = [@ EXCEPT ![h] = n2, ![n2] = m1, ![m1] = h,
                                      ![t] = m2, ![m2] = n1, ![n1] = t],
          !.he_to_prev_he = [@ EXCEPT ![n2] = h, ![m1] = n2, ![h] = m1,
                                      ![m2] = t, ![n1] = m2, ![t] = n1],
          !.he_to_parent = [@ EXCEPT ![m1] = a, ![n1] = b],
          !.parent_to_first_he = [@ EXCEPT ![a] = IF @ = n1 THEN h ELSE @,
                                           ![b] = IF @ = m1 THEN t ELSE @]]

swap_edge(m, parents) ==
    LET a == parents[1]
        b == parents[2]
        shared == shared_edges(m, a, b)
    IN IF Cardinality(shared) # 1 THEN Result(m, "WrongMeshInitialisation", NoRet)
       ELSE LET h == CHOOSE x \in shared : TRUE
            IN IF swap_aligned(m, h) THEN Result(m, "AllignedEdges", NoRet)
               ELSE Result(swap_rewrite(m, a, b, h), "Ok", NoRet)

\* the cycle of parent p is three half-edges long
is_triangle(m, p) ==
    /\ he_from_parent(m, p).st = "Ok"
    /\ len(he_from_parent(m, p).hes) = 3

\* the pairs swap_edge is described for: two parents that do not share
\* exactly one edge, or two triangles of kind Cell that do
swap_described(m, a, b) ==
    /\ he_from_parent(m, a).st = "Ok"
    /\ he_from_parent(m, b).st = "Ok"
    /\ \/ Cardinality(shared_edges(m, a, b)) # 1
       \/ /\ is_triangle(m, a) /\ is_triangle(m, b)
          /\ m.parents[a].kind = "Cell" /\ m.parents[b].kind = "Cell"

\* the point the last vertex is moved to after a refused swap (0.6, 0.6 in
\* combined_test), a point off every line through two corners of a boundary
MovePoints == {<<(PosScale \div 2) + (PosScale \div 8), (PosScale \div 2) - (PosScale \div 8)>>}

SwapEdge ==
    /\ Editable
    /\ \E a \in DOMAIN mesh.parents, b \in DOMAIN mesh.parents :
         /\ swap_described(mesh, a, b)
         /\ \E r \in {swap_edge(mesh, <<a, b>>)} :
              /\ Returns(r)
              /\ last' = Call("swap_edge", NoRet, NoRet, a, b, NoRet, NoPos,
                              r.res, r.ret)

\* combined_test writes the position of the last vertex after swap_edge has
\* returned AllignedEdges, and calls swap_edge again
MoveVertex ==
    /\ Modifiable
    /\ last.op = "swap_edge"
    /\ last.res = "AllignedEdges"
    /\ vertices_len(mesh) > 0
    /\ \E pos \in MovePoints :
         /\ mesh' = [mesh EXCEPT !.vertices[vertices_len(mesh) - 1] = pos]
         /\ last' = Call("move_vertex", NoRet, NoRet, last.u, last.v, NoRet, pos,
                         "Ok", NoRet)
    /\ refused' = FALSE
    /\ UNCHANGED <<safe, comp, built_he>>

NextSwap == SplitEdge \/ Trimming \/ SwapEdge \/ MoveVertex \/ ValidateTopology

SpecSwap == Init /\ [][NextSwap]_vars

(***************************************************************************)
(* C25: swap_edge applied twice                                            *)
(***************************************************************************)
\* the edges of m as unordered pairs of vertices
edge_set(m) ==
    {{m.he_to_vertex[h], m.he_to_vertex[m.he_to_twin[h]]} : h \in DOMAIN m.he_to_vertex}

\* the vertices on the cycle of parent p
cell_vertex_set(m, p) ==
    LET hes == he_from_parent(m, p).hes
    IN {m.he_to_vertex[hes[i]] : i \in DOMAIN hes}

\* the pairs of cells that meet along an edge, each cell named by the
\* vertices of its cycle
cell_adjacency(m) ==
    LET cell == [p \in DOMAIN m.parents |-> cell_vertex_set(m, p)]
    IN {{cell[m.he_to_parent[h]], cell[m.he_to_parent[m.he_to_twin[h]]]} :
          h \in {x \in DOMAIN m.he_to_vertex :
                    /\ m.parents[m.he_to_parent[x]].kind = "Cell"
                    /\ m.parents[m.he_to_parent[m.he_to_twin[x]]].kind = "Cell"}}

topologically_equivalent(m1, m2) ==
    /\ m1.vertices = m2.vertices
    /\ edge_set(m1) = edge_set(m2)
    /\ cell_adjacency(m1) = cell_adjacency(m2)

\* the step is a swap_edge that returned Ok on a mesh that passes check_mesh
swap_step ==
    /\ last'.op = "swap_edge"
    /\ last'.res = "Ok"
    /\ mesh' = swap_edge(mesh, <<last'.u, last'.v>>).m
    /\ check_mesh(mesh) = "Ok"

edges_between(m, a, b) ==
    {h \in DOMAIN m.he_to_parent :
        m.he_to_parent[h] = a /\ m.he_to_parent[m.he_to_twin[h]] = b}

\* point p lies on the segment from c to d
on_segment(p, c, d) ==
    /\ cross(minus(d, c), minus(p, c)) = 0
    /\ dot(minus(p, c), minus(p, d)) <= 0

\* the edge that would replace h passes through an endpoint of h
passes_through_endpoint(m, h) ==
    LET c == swap_corners(m, h)
    IN \/ on_segment(m.vertices[c.va], m.vertices[c.vc], m.vertices[c.vd])
       \/ on_segment(m.vertices[c.vb], m.vertices[c.vc], m.vertices[c.vd])

C26_WitnessAligned ==
    /\ last.op = "swap_edge"
    /\ check_mesh(mesh) = "Ok"
    /\ last.res = "AllignedEdges"
    /\ \E h \in edges_between(mesh, last.u, last.v) : passes_through_endpoint(mesh, h)

\* two different parents that share two edges
C26_WitnessWrong ==
    /\ last.op = "swap_edge"
    /\ check_mesh(mesh) = "Ok"
    /\ last.res = "WrongMeshInitialisation"
    /\ last.u # last.v
    /\ Cardinality(edges_between(mesh, last.u, last.v)) > 1

(***************************************************************************)
(* C27: parent_to_first_he of a mesh built by new_from_boundary            *)
(***************************************************************************)
\* parent_to_first_he has one entry per parent and entry p is a half-edge
\* of parent p
first_he_per_parent(m) ==
    /\ len(m.parent_to_first_he) = parents_len(m)
    /\ \A p \in DOMAIN m.parent_to_first_he :
          /\ InRange(m.parent_to_first_he[p], m.he_to_parent)
          /\ m.he_to_parent[m.parent_to_first_he[p]] = p

\* C27: for every input of new_from_boundary with at least one edge, a
\* parents list with a parent no edge refers to included, parent_to_first_he
\* has exactly one entry per parent (the supplied parents and the appended
\* Cell) and parent_to_first_he[p] is a half-edge of parent p
C27_FirstHePerParent ==
    (last.op = "new_from_boundary" /\ len(last.edges) >= 1)
       => first_he_per_parent(mesh)

\* what the loop of lines 388-396 gives: one entry per parent when every
\* supplied parent is named by an edge; otherwise one entry per parent that
\* some half-edge has, in increasing order of parent, so that the entries
\* from the first unnamed parent on sit one or more places too low
C27_FirstHeOfNamedParents ==
    last.op = "new_from_boundary" =>
       LET named == {p \in DOMAIN mesh.parents :
                        \E h \in DOMAIN mesh.he_to_parent : mesh.he_to_parent[h] = p}
       IN /\ len(mesh.parent_to_first_he) = Cardinality(named)
          /\ parents_all_named(last.edges, last.parents) => first_he_per_parent(mesh)
          /\ \A k \in DOMAIN mesh.parent_to_first_he :
                /\ mesh.he_to_parent[mesh.parent_to_first_he[k]] \in named
                /\ Cardinality({p \in named :
                       p < mesh.he_to_parent[mesh.parent_to_first_he[k]]}) = k

\* two Boundary parents are supplied and every edge names the first: the
\* entry of parent 1 is a half-edge of the Cell parent 2 and the Cell has
\* no entry
C27_Witness ==
    /\ last.op = "new_from_boundary"
    /\ len(last.edges) >= 1
    /\ len(last.parents) = 2
    /\ \A i \in DOMAIN last.edges : last.edges[i][3] = 0
    /\ len(mesh.parent_to_first_he) = 2
    /\ mesh.he_to_parent[mesh.parent_to_first_he[1]] = 2

(***************************************************************************)
(* C28: notching that returns an error                                     *)
(***************************************************************************)
\* the step is a notching that returned an error on a mesh that passes
\* check_mesh
notching_refused ==
    /\ last'.op = "notching"
    /\ last'.res \notin {"Ok", "Panic"}
    /\ check_mesh(mesh) = "Ok"

\* C28: on any mesh that passes check_mesh, a boundary of two edges where
\* another half-edge already joins the ends of h included, a notching that
\* returns an error leaves the mesh exactly as it was before the call
C28_NotchingAtomic ==
    [][notching_refused => mesh' = mesh]_vars

\* what notching leaves on an error: the mesh as it was when the index is
\* out of range, and otherwise the mesh after split_edge(h, 0.5) with the
\* new vertex moved to pos, when it is the trimming of lines 655-657 that
\* returns the error before it writes
C28_NotchingLeavesSplit ==
    [][notching_refused =>
         \/ (last'.res = "HalfEdgeIndexOutOfBound" /\ mesh' = mesh)
         \/ /\ last'.res \in {"AlreadyExists", "ParentDoesNotContainVertex"}
            /\ \E s \in {split_edge(mesh, last'.he, RatioDen \div 2)} :
                  /\ s.res = "Ok"
                  /\ mesh' = [s.m EXCEPT !.vertices[vertices_len(mesh)] = last'.pos]]_vars

\* notching on the boundary of two edges has returned AlreadyExists and the
\* mesh has two more half-edges and a vertex at pos
C28_Witness ==
    /\ last.op = "notching"
    /\ last.res = "AlreadyExists"
    /\ built_he = 4
    /\ he_len(mesh) = 6
    /\ vertices_len(mesh) = 3
    /\ mesh.vertices[2] = last.pos

(***************************************************************************)
(* C29: the store only grows                                               *)
(***************************************************************************)
\* the step is a call of split_edge, trimming or notching that returned
mutating_call ==
    /\ last'.op \in {"split_edge", "trimming", "notching"}
    /\ last'.res # "Panic"

equal_lengths(m) ==
    /\ len(m.he_to_twin) = he_len(m)
    /\ len(m.he_to_next_he) = he_len(m)
    /\ len(m.he_to_prev_he) = he_len(m)
    /\ len(m.he_to_parent) = he_len(m)

\* m2 holds everything m1 holds: no fewer vertices, half-edges and parents,
\* the same origin for every half-edge of m1 and the same kind for every
\* parent of m1
grown_from(m1, m2) ==
    /\ vertices_len(m2) >= vertices_len(m1)
    /\ he_len(m2) >= he_len(m1)
    /\ parents_len(m2) >= parents_len(m1)
    /\ \A h \in DOMAIN m1.he_to_vertex : m2.he_to_vertex[h] = m1.he_to_vertex[h]
    /\ \A p \in DOMAIN m1.parents : m2.parents[p].kind = m1.parents[p].kind

\* C29: after any call of split_edge, trimming or notching, returning Ok or
\* an error, the five half-edge arrays have the same length, the number of
\* half-edges is even, the numbers of vertices, half-edges and parents have
\* not decreased, every half-edge that existed keeps its origin, every
\* parent that existed keeps its kind, and parent_to_first_he has one entry
\* per parent
C29_AppendOnly ==
    [][mutating_call =>
         /\ equal_lengths(mesh')
         /\ he_len(mesh') % 2 = 0
         /\ grown_from(mesh, mesh')
         /\ len(mesh'.parent_to_first_he) = parents_len(mesh')]_vars

\* a trimming has added two half-edges and a parent, a split_edge before it
\* two half-edges and a vertex
C29_Witness ==
    /\ last.op = "trimming"
    /\ last.res = "Ok"
    /\ he_len(mesh) = built_he + 4
    /\ vertices_len(mesh) > 2
    /\ parents_len(mesh) = 3
    /\ len(mesh.parent_to_first_he) = 3

\* a call that returned an error after it had written
C29_WitnessError ==
    /\ last.op \in {"split_edge", "trimming", "notching"}
    /\ last.res \notin {"Ok", "Panic"}
    /\ he_len(mesh) > built_he
    /\ ~ refused

(***************************************************************************)
(* C30: no edge between two boundaries                                     *)
(***************************************************************************)
\* half-edge h and its twin both have a parent of kind Boundary
double_boundary(m, h) ==
    /\ m.parents[m.he_to_parent[h]].kind = "Boundary"
    /\ m.parents[m.he_to_parent[m.he_to_twin[h]]].kind = "Boundary"

\* C30: in every mesh reached from new_from_boundary, whose edges name
\* Boundary parents, by split_edge, trimming and notching, no half-edge and
\* its twin both have a Boundary parent; every face of the computational
\* mesh built from it has at least one Cell patch, and
\* geometric_weighting_factor does not reach its panic
C30_NoDoubleBoundary ==
    /\ last.res # "Panic" =>
          \A h \in DOMAIN mesh.he_to_twin : ~ double_boundary(mesh, h)
    /\ (last.op = "new_from_he" /\ comp.st = "Ok") =>
          \A f \in DOMAIN comp.faces :
             /\ \E i \in 1..2 : comp.faces[f].patches[i].kind = "Cell"
             /\ geometric_weighting_factor(comp, f).st = "Ok"

\* what holds: no mesh that passes check_mesh has a half-edge and its twin
\* in Boundary parents
C30_CheckedMeshNoDoubleBoundary ==
    check_mesh(mesh) = "Ok" =>
       \A h \in DOMAIN mesh.he_to_twin : ~ double_boundary(mesh, h)

\* and every face of a computational mesh, which is built from a validated
\* mesh, has a Cell patch, so that geometric_weighting_factor returns
C30_FacesHaveCell ==
    (last.op = "new_from_he" /\ comp.st = "Ok") =>
       \A f \in DOMAIN comp.faces :
          /\ \E i \in 1..2 : comp.faces[f].patches[i].kind = "Cell"
          /\ geometric_weighting_factor(comp, f).st = "Ok"

\* trimming((0, 0), Boundary parent) has returned Ok, a second trimming in
\* the Boundary parent has returned Ok, and an edge now lies between two
\* half-edges of the Boundary parent
C30_Witness ==
    /\ last.op = "trimming"
    /\ last.res = "Ok"
    /\ check_mesh(mesh) # "Ok"
    /\ \E h \in DOMAIN mesh.he_to_twin : double_boundary(mesh, h)

\* a computational mesh of two cells or more with faces on the boundary and
\* a face between two cells
C30_WitnessFaces ==
    /\ last.op = "new_from_he"
    /\ comp.st = "Ok"
    /\ len(comp.cells) >= 2
    /\ \E f \in DOMAIN comp.faces :
          \E i \in 1..2 : comp.faces[f].patches[i].kind = "Boundary"
    /\ \E f \in DOMAIN comp.faces :
          \A i \in 1..2 : comp.faces[f].patches[i].kind = "Cell"
====
